---- MODULE Spec2Model ----
(***************************************************************************)
(* Streaming orchestrator of infoverse-ai-canvas: the header-based         *)
(* StreamingHandler (src/src/noteGenerator.ts 2674-3437), the completion   *)
(* wrappers and watchdog of generateNote (3756-3793), the OpenAI streaming *)
(* transport (src/src/openai/chatGPT.ts 132-284) and the entry points that *)
(* share the plugin's settings object (4260-4289, 4463-4519).              *)
(*                                                                         *)
(* Text is a sequence of one-character strings.  Offsets are 0-based as in *)
(* the source; TLA+ sequences are 1-based, so slice(a, b) is               *)
(* SubSeq(s, a + 1, b).                                                    *)
(*                                                                         *)
(* Every handler is one action.  onToken is an async function whose awaits *)
(* resolve in microtasks; the actions below are its run to completion,     *)
(* i.e. the transport delivers one token per network read.                 *)
(***************************************************************************)
EXTENDS Integers, Sequences, FiniteSets, TLC

\* ------------------------------------------------------------------ bounds

\* Pieces of text the transport delivers in one stream (Spec).
MaxTokens == 2
\* Pieces a document of the round-trip specification is made of (SpecRT).
MaxPieces == 3
\* Largest value of settings.streamingRetryAttempts that is explored.
MaxRetryAttempts == 1
\* Exceptions the canvas collaborator raises in one session.
MaxCanvasFaults == 1
\* tokens each of the concurrently running commands receives
MaxCommandTokens == 1

\* ------------------------------------------------------------ characters

NL == "\n"
SP == " "
HASH == "#"
\* The streaming indicator (U+25CF) appended to a node's text while streaming.
Indicator == "[dot]"
\* `Calling AI (model)...`, the text the response note is created with.
Placeholder == <<"Calling AI...">>
\* The first character of the text onError writes into the response note.
ErrorMark == "[x]"

\* The texts a document is concatenated from (SpecRT): plain text, a line break,
\* an H1 and an H2 header.
Pieces ==
    { <<"a">>, <<NL>>, <<HASH, SP, "a">>, <<HASH, HASH, SP, "a">>,
      <<NL, HASH, SP, "a">>, <<NL, HASH, HASH, SP, "a">>,
      <<NL, HASH, HASH, HASH, SP, "a">> }

\* The tokens the transport delivers (Spec): plain text, an H1 header, and a
\* token that spans lines (a line break, an H2 header and its first text).
Tokens == { <<"a">>, <<HASH, SP, "a">>, <<NL, HASH, HASH, SP, "a", NL, "a">> }

\* ------------------------------------------------------- string functions

isSpace(c) == c = SP \/ c = NL

\* String.prototype.slice(a, b) for 0 <= a, b.
slice(s, a, b) == SubSeq(s, a + 1, IF b > Len(s) THEN Len(s) ELSE b)

RECURSIVE trimStart(_)
trimStart(s) ==
    IF s # <<>> /\ isSpace(Head(s)) THEN trimStart(Tail(s)) ELSE s

RECURSIVE trimEnd(_)
trimEnd(s) ==
    IF s # <<>> /\ isSpace(s[Len(s)]) THEN trimEnd(SubSeq(s, 1, Len(s) - 1)) ELSE s

\* String.prototype.trim()
trim(s) == trimEnd(trimStart(s))

\* '#'.repeat(n)
RECURSIVE repeatHash(_)
repeatHash(n) == IF n <= 0 THEN <<>> ELSE <<HASH>> \o repeatHash(n - 1)

\* ---------------------------------------------------------- Header Scanner

\* Number of leading '#' of a line.
RECURSIVE hashRun(_)
hashRun(line) ==
    IF line # <<>> /\ Head(line) = HASH THEN 1 + hashRun(Tail(line)) ELSE 0

\* line.match(/^(#{1,6})\s+(.+)$/): one to six '#', then whitespace, then at least
\* one more character.  The '#' group cannot be shorter than the leading run,
\* because the character after it must be whitespace.
headerMatch(line) ==
    LET k == hashRun(line)
    IN  k >= 1 /\ k <= 6 /\ Len(line) >= k + 2 /\ isSpace(line[k + 1])

\* headerMatch[2].trim(): \s+ is greedy and (.+) takes the rest, so the text is
\* what follows the '#' run, trimmed.
headerTextOf(line) == trim(SubSeq(line, hashRun(line) + 1, Len(line)))

\* 1-based position of the line break ending the line that starts at i
\* (Len(text) + 1 when the line is the last one).
RECURSIVE lineEnd(_, _)
lineEnd(text, i) ==
    IF i > Len(text) \/ text[i] = NL THEN i ELSE lineEnd(text, i + 1)

RECURSIVE parseFrom(_, _)
parseFrom(text, i) ==
    LET e    == lineEnd(text, i)
        line == SubSeq(text, i, e - 1)
        rest == IF e > Len(text) THEN <<>> ELSE parseFrom(text, e + 1)
    IN  IF headerMatch(line)
        THEN << [level      |-> hashRun(line),
                 text       |-> headerTextOf(line),
                 startIndex |-> i - 1,
                 endIndex   |-> i - 1 + Len(line)] >> \o rest
        ELSE rest

parseHeaders(text) == parseFrom(text, 1)

\* ------------------------------------------------------- StreamingHandler
\* A handler is a record of the fields of class StreamingHandler:
\*   currentText, isCompleted, isPaused, pendingUpdate, retryCount,
\*   enableLiveSplitting, lastProcessedLength, nodeCounter, and
\*   nodeMap           the TreeNodes in insertion order (Map keeps it); the root
\*                     is nodeMap[1]; a TreeNode's children are the nodes whose
\*                     parentId is its id, in insertion order;
\*   canvas            the text of every canvas node the session created;
\*                     canvas[1] is initialNode (= currentNode, = the root's
\*                     canvasNode); a TreeNode's canvasNode is an index into
\*                     canvas, 0 for undefined;
\*   anchors           per canvas node, the node it was created from: createNode
\*                     places a note relative to its parent argument and adds
\*                     an edge from it; parentNode says the argument was
\*                     this.parentNode (the note the user asked from), else
\*                     canvasNode is the index of the canvas node used;
\*   edges             the <<from, to>> pairs of canvas.createEdge calls;
\*   intervalElapsed   Date.now() - lastUpdateTime >= streamingUpdateInterval;
\*   updateTimers      the setTimeout callbacks of scheduleUpdate not yet run;
\*   progressNode, controlNode          the node exists (is not null);
\*   progressTimer, controlTimer        its delayed removal is scheduled.
\* The progress text (tokenCount, errorCount, rates) is not modelled.

NoParent == -1

\* initializeTreeStructure
initializeTreeStructure ==
    [id |-> 0, content |-> <<>>, headerLevel |-> 0, headerText |-> <<"Root">>,
     startIndex |-> 0, endIndex |-> 0, parentId |-> NoParent, canvasNode |-> 1]

\* The anchor of a note created from this.parentNode.
fromParentNode == [parentNode |-> TRUE, canvasNode |-> 0]

\* new StreamingHandler(canvas, parentNode, initialNode, settings, logDebug)
newStreamingHandler(settings) ==
    LET live == settings.enableMarkdownSplitting /\ settings.enableStreamingSplit
    IN  [currentText         |-> <<>>,
         isCompleted         |-> FALSE,
         isPaused            |-> FALSE,
         pendingUpdate       |-> FALSE,
         intervalElapsed     |-> TRUE,
         updateTimers        |-> 0,
         retryCount          |-> 0,
         enableLiveSplitting |-> live,
         nodeMap             |-> IF live THEN <<initializeTreeStructure>> ELSE <<>>,
         nodeCounter         |-> IF live THEN 1 ELSE 0,
         lastProcessedLength |-> 0,
         canvas              |-> <<Placeholder>>,
         anchors             |-> <<fromParentNode>>,
         edges               |-> {},
         enableMarkdownHierarchy |-> settings.enableMarkdownHierarchy,
         progressNode        |-> settings.showStreamingProgress,
         controlNode         |-> settings.enableStreamingControls,
         progressTimer       |-> FALSE,
         controlTimer        |-> FALSE]

\* The text shown for `content`: the indicator is appended while streaming.
displayText(h, content) ==
    IF h.isCompleted THEN content ELSE Append(content, Indicator)

\* getCurrentActiveTreeNode: the node with the highest startIndex; the sort is
\* stable, so among equal startIndex the first inserted wins.  The result is
\* an index into nodeMap.
getCurrentActiveTreeNode(h) ==
    CHOOSE i \in 1..Len(h.nodeMap) :
        /\ \A j \in 1..Len(h.nodeMap) : h.nodeMap[j].startIndex <= h.nodeMap[i].startIndex
        /\ \A j \in 1..(i - 1) : h.nodeMap[j].startIndex < h.nodeMap[i].startIndex

\* The offset at which the content of a node ends: the start of the first header
\* after the node's start whose level is <= the node's level.
RECURSIVE contentEnd(_, _, _, _)
contentEnd(headers, k, treeNode, len) ==
    IF k > Len(headers) THEN len
    ELSE IF headers[k].startIndex > treeNode.startIndex
            /\ headers[k].level <= treeNode.headerLevel
         THEN headers[k].startIndex
         ELSE contentEnd(headers, k + 1, treeNode, len)

\* getContentForTreeNode
getContentForTreeNode(h, treeNode) ==
    trim(slice(h.currentText, treeNode.startIndex,
               contentEnd(parseHeaders(h.currentText), 1, treeNode, Len(h.currentText))))

\* updateCurrentActiveNode
updateCurrentActiveNode(h) ==
    IF ~h.enableLiveSplitting
    THEN [h EXCEPT !.canvas[1] = displayText(h, h.currentText)]
    ELSE LET i    == getCurrentActiveTreeNode(h)
             node == h.nodeMap[i]
             nodeContent == getContentForTreeNode(h, node)
         IN  IF node.canvasNode = 0 THEN h
             ELSE [h EXCEPT !.canvas[node.canvasNode] = displayText(h, nodeContent),
                            !.nodeMap[i].content = nodeContent,
                            !.nodeMap[i].endIndex = node.startIndex + Len(nodeContent)]

\* findParentForLevel: the id of the parent of a header of this level: the root
\* for level <= 1, else the latest node (by startIndex) of a lower level > 0,
\* else the root.
findParentForLevel(h, headerLevel) ==
    LET cand == { i \in 1..Len(h.nodeMap) :
                    /\ h.nodeMap[i].headerLevel < headerLevel
                    /\ h.nodeMap[i].headerLevel > 0 }
    IN  IF headerLevel <= 1 \/ cand = {} THEN h.nodeMap[1].id
        ELSE h.nodeMap[CHOOSE i \in cand :
                          /\ \A j \in cand : h.nodeMap[j].startIndex <= h.nodeMap[i].startIndex
                          /\ \A j \in cand : j < i => h.nodeMap[j].startIndex < h.nodeMap[i].startIndex].id

\* What the canvas collaborator does in createCanvasNodeForTreeNode.
CanvasFaults == {"none", "createNode", "moveAndResize"}

\* createCanvasNodeForTreeNode with the parent's canvas node used as it is,
\* whether it exists or not.
createCanvasNodeForTreeNodeUnguarded(h, treeNode, parentTreeNode, fault) ==
    LET initialContent == repeatHash(treeNode.headerLevel) \o <<SP>> \o treeNode.headerText
        canvasNode == Len(h.canvas) + 1
        created == [h EXCEPT !.canvas = Append(@, initialContent),
                             !.anchors = Append(@, [parentNode |-> FALSE,
                                                    canvasNode |-> parentTreeNode.canvasNode])]
    IN  IF fault = "createNode" THEN <<h, 0>>
        ELSE IF fault = "moveAndResize" THEN <<created, 0>>
        ELSE <<[created EXCEPT !.edges = @ \cup {<<parentTreeNode.canvasNode, canvasNode>>}],
               canvasNode>>

\* createCanvasNodeForTreeNode, given the outcome of the canvas calls: the pair
\* <<handler, canvasNode>> after it.  An exception of createNode leaves no canvas
\* node; one of moveAndResize leaves a canvas node the tree node does not
\* reference.  Either is caught and logged.
createCanvasNodeForTreeNode(h, treeNode, parentTreeNode, fault) ==
    LET initialContent == repeatHash(treeNode.headerLevel) \o <<SP>> \o treeNode.headerText
        canvasNode == Len(h.canvas) + 1
        anchor == IF parentTreeNode.canvasNode # 0
                  THEN [parentNode |-> FALSE, canvasNode |-> parentTreeNode.canvasNode]
                  ELSE fromParentNode
        created == [h EXCEPT !.canvas = Append(@, initialContent),
                             !.anchors = Append(@, anchor)]
    IN  IF fault = "createNode" THEN <<h, 0>>
        ELSE IF fault = "moveAndResize" THEN <<created, 0>>
        ELSE IF h.enableMarkdownHierarchy /\ parentTreeNode.canvasNode # 0
        THEN <<[created EXCEPT !.edges = @ \cup {<<parentTreeNode.canvasNode, canvasNode>>}],
               canvasNode>>
        ELSE <<created, canvasNode>>

\* The TreeNode of nodeMap with this id.
nodeById(h, id) == h.nodeMap[CHOOSE i \in 1..Len(h.nodeMap) : h.nodeMap[i].id = id]

\* processNewHeader
processNewHeader(h, header, fault) ==
    LET contentBeforeHeader ==
            trim(slice(h.currentText, h.lastProcessedLength, header.startIndex))
        h1 == IF Len(contentBeforeHeader) > 0 THEN updateCurrentActiveNode(h) ELSE h
        newTreeNode == [id |-> h1.nodeCounter, content |-> <<>>,
                        headerLevel |-> header.level, headerText |-> header.text,
                        startIndex |-> header.startIndex, endIndex |-> header.endIndex,
                        parentId |-> findParentForLevel(h1, header.level),
                        canvasNode |-> 0]
        made == createCanvasNodeForTreeNode(h1, newTreeNode,
                                            nodeById(h1, newTreeNode.parentId), fault)
    IN  [made[1] EXCEPT !.nodeCounter = @ + 1,
                        !.nodeMap = Append(@, [newTreeNode EXCEPT !.canvasNode = made[2]])]

\* for (const header of newHeaders) await this.processNewHeader(header); the
\* canvas fault, if any, hits the first header of the pass.
RECURSIVE processNewHeaders(_, _, _)
processNewHeaders(h, newHeaders, fault) ==
    IF newHeaders = <<>> THEN h
    ELSE processNewHeaders(processNewHeader(h, Head(newHeaders), fault),
                           Tail(newHeaders), "none")

\* The headers of the buffer that start at or after lastProcessedLength.
RECURSIVE headersFrom(_, _)
headersFrom(headers, from) ==
    IF headers = <<>> THEN <<>>
    ELSE IF Head(headers).startIndex >= from
         THEN <<Head(headers)>> \o headersFrom(Tail(headers), from)
         ELSE headersFrom(Tail(headers), from)

\* tryHeaderBasedSplit without the try/catch blocks around the canvas calls: the
\* exception leaves the loop and nothing of the pass is recorded.
tryHeaderBasedSplitUncaught(h, fault) ==
    IF ~h.enableLiveSplitting \/ Len(h.currentText) <= h.lastProcessedLength THEN h
    ELSE LET newHeaders == headersFrom(parseHeaders(h.currentText), h.lastProcessedLength)
         IN  IF Len(newHeaders) = 0 THEN updateCurrentActiveNode(h)
             ELSE IF fault # "none" THEN h
             ELSE [processNewHeaders(h, newHeaders, fault)
                     EXCEPT !.lastProcessedLength = Len(h.currentText)]

\* tryHeaderBasedSplit
tryHeaderBasedSplit(h, fault) ==
    IF ~h.enableLiveSplitting \/ Len(h.currentText) <= h.lastProcessedLength THEN h
    ELSE LET newHeaders == headersFrom(parseHeaders(h.currentText), h.lastProcessedLength)
         IN  IF Len(newHeaders) = 0 THEN updateCurrentActiveNode(h)
             ELSE [processNewHeaders(h, newHeaders, fault)
                     EXCEPT !.lastProcessedLength = Len(h.currentText)]

\* onToken
onToken(h, token, fault) ==
    IF h.isCompleted \/ h.isPaused THEN h
    ELSE LET h1 == [h EXCEPT !.currentText = @ \o token]
             h2 == IF h1.enableLiveSplitting THEN tryHeaderBasedSplit(h1, fault) ELSE h1
         IN  IF h2.intervalElapsed /\ ~h2.pendingUpdate
             THEN [h2 EXCEPT !.pendingUpdate = TRUE, !.updateTimers = @ + 1]
             ELSE h2

\* The timer callback of scheduleUpdate.
scheduleUpdate(h) ==
    [updateCurrentActiveNode(h) EXCEPT !.intervalElapsed = FALSE,
                                       !.pendingUpdate = FALSE,
                                       !.updateTimers = @ - 1]

\* onComplete together with scheduleAsyncCompletion.  scheduleAsyncCompletion runs
\* up to its first await before onComplete's own updateCurrentActiveNode and
\* finishes in microtasks right after onComplete returns: the refresh of the
\* node that was active before lands first, then the remaining header
\* processing, then the final refresh.
onComplete(h, fullText) ==
    LET h1 == [h EXCEPT !.isCompleted = TRUE, !.currentText = fullText]
        h2 == IF h1.enableLiveSplitting
              THEN updateCurrentActiveNode(
                       tryHeaderBasedSplit(updateCurrentActiveNode(h1), "none"))
              ELSE updateCurrentActiveNode(h1)
    IN  [h2 EXCEPT !.controlTimer = @ \/ h2.controlNode,
                   !.progressTimer = @ \/ h2.progressNode]

\* onError
onError(h, settings) ==
    IF h.retryCount < settings.streamingRetryAttempts
    THEN [h EXCEPT !.retryCount = @ + 1]
    ELSE [h EXCEPT !.isCompleted = TRUE,
                   !.canvas[1] = <<ErrorMark>>,
                   !.progressTimer = @ \/ h.progressNode]

\* pause
pause(h, settings) ==
    IF settings.enableStreamingControls THEN [h EXCEPT !.isPaused = TRUE] ELSE h

\* resume
resume(h, settings) ==
    IF settings.enableStreamingControls THEN [h EXCEPT !.isPaused = FALSE] ELSE h

\* stop with the delayed removal onComplete uses for the transient nodes.
stopDelayedRemoval(h) ==
    LET h1 == updateCurrentActiveNode([h EXCEPT !.isCompleted = TRUE, !.isPaused = FALSE])
    IN  [h1 EXCEPT !.controlTimer = @ \/ h1.controlNode,
                   !.progressTimer = @ \/ h1.progressNode]

\* stop
stop(h) ==
    LET h1 == updateCurrentActiveNode([h EXCEPT !.isCompleted = TRUE, !.isPaused = FALSE])
    IN  [h1 EXCEPT !.controlNode = FALSE, !.progressNode = FALSE]

\* The callbacks of the removal timers set by onComplete and onError.
removeControlNode(h) == [h EXCEPT !.controlNode = FALSE, !.controlTimer = FALSE]
removeProgressNode(h) == [h EXCEPT !.progressNode = FALSE, !.progressTimer = FALSE]

\* ------------------------------------------------- generateNote: one session

VARIABLES
    settings,              \* the plugin's settings object, shared by every session
    handler,               \* the StreamingHandler of the session
    isStreamingCompleted,  \* generateNote's flag guarding the wrapped callbacks
    timeoutId,             \* the watchdog timer of generateNote is pending
    transport,             \* getChatGPTStreamingCompletion: pc, fullText, requests
    canvasFaults,          \* exceptions the canvas has raised so far
    rt,                    \* SpecRT: one document fed to two handlers
    configured,            \* SpecConc: the settings as the user configured them
    commands               \* SpecConc: the commands running on the shared settings

sessionVars == <<handler, isStreamingCompleted, timeoutId, transport, canvasFaults>>
vars == <<settings, handler, isStreamingCompleted, timeoutId, transport, canvasFaults,
          rt, configured, commands>>

\* The settings a session is explored under: live splitting on or off, the
\* controls and the progress indicator both on or both off, every retry budget.
SettingsSpace ==
    { s \in [enableMarkdownSplitting : BOOLEAN,
             enableStreamingSplit    : {TRUE},
             enableStreamingControls : BOOLEAN,
             showStreamingProgress   : BOOLEAN,
             streamingRetryAttempts  : 0..MaxRetryAttempts,
             enableMarkdownHierarchy : {TRUE},
             enableStreaming         : {TRUE}] :
        s.showStreamingProgress = s.enableStreamingControls }

\* getChatGPTStreamingCompletion once called: reading the response.  requests
\* counts the fetch calls (there is one per call of the function, and
\* callAIStreaming is called once per session); error says onError was called;
\* terminalCalls counts the calls of onComplete and onError the function made.
NewTransport ==
    [pc |-> "reading", fullText |-> <<>>, requests |-> 1, tokens |-> 0, error |-> FALSE,
     terminalCalls |-> 0]

\* The state generateNote is in when it calls callAIStreaming: the handler is
\* constructed, the watchdog is set, the callbacks are wrapped, and the
\* transport is about to issue its one request.
Init ==
    /\ settings \in SettingsSpace
    /\ handler = newStreamingHandler(settings)
    /\ isStreamingCompleted = FALSE
    /\ timeoutId = TRUE
    /\ transport = NewTransport
    /\ canvasFaults = 0
    /\ rt = <<>>
    /\ configured = settings
    /\ commands = <<>>

\* streamingHandler.onComplete as wrapped by generateNote: <<handler,
\* isStreamingCompleted, timeoutId>> after the call.
wrappedOnComplete(h, done, timer, fullText) ==
    IF ~done THEN <<onComplete(h, fullText), TRUE, FALSE>> ELSE <<h, done, timer>>

\* streamingHandler.onError as wrapped by generateNote.
wrappedOnError(h, done, timer, s) ==
    IF ~done THEN <<onError(h, s), TRUE, FALSE>> ELSE <<h, done, timer>>

\* onToken(token) reaches createCanvasNodeForTreeNode: the token is taken and
\* the buffer with it holds a header that is not materialized yet.
createsCanvasNode(h, token) ==
    /\ ~h.isCompleted /\ ~h.isPaused /\ h.enableLiveSplitting
    /\ Len(h.currentText \o token) > h.lastProcessedLength
    /\ headersFrom(parseHeaders(h.currentText \o token), h.lastProcessedLength) # <<>>

\* The transport reads a chunk holding one token and calls onToken.
TransportToken ==
    /\ transport.pc = "reading"
    /\ transport.tokens < MaxTokens
    /\ \E token \in Tokens, fault \in CanvasFaults :
        /\ fault # "none" => canvasFaults < MaxCanvasFaults
        \* the canvas can only fail where it is called
        /\ fault # "none" => createsCanvasNode(handler, token)
        /\ handler' = onToken(handler, token, fault)
        /\ canvasFaults' = IF fault # "none" THEN canvasFaults + 1 ELSE canvasFaults
        /\ transport' = [transport EXCEPT !.fullText = @ \o token, !.tokens = @ + 1]
    /\ UNCHANGED <<rt, configured, commands, settings, isStreamingCompleted, timeoutId>>

\* The stream ends ([DONE] or the reader reports done, also after the reader was
\* cancelled by the chunk timeout): onComplete(fullText).
TransportDone ==
    /\ transport.pc \in {"reading", "cancelled"}
    /\ LET r == wrappedOnComplete(handler, isStreamingCompleted, timeoutId, transport.fullText)
       IN  /\ handler' = r[1]
           /\ isStreamingCompleted' = r[2]
           /\ timeoutId' = r[3]
    /\ transport' = [transport EXCEPT !.pc = "returned", !.terminalCalls = @ + 1]
    /\ UNCHANGED <<rt, configured, commands, settings, canvasFaults>>

\* The request or a read fails (HTTP error, abort, stalled connection): the
\* catch block calls onError and the transport returns.
TransportError ==
    /\ transport.pc = "reading"
    /\ LET r == wrappedOnError(handler, isStreamingCompleted, timeoutId, settings)
       IN  /\ handler' = r[1]
           /\ isStreamingCompleted' = r[2]
           /\ timeoutId' = r[3]
    /\ transport' = [transport EXCEPT !.pc = "returned", !.error = TRUE,
                                      !.terminalCalls = @ + 1]
    /\ UNCHANGED <<rt, configured, commands, settings, canvasFaults>>

\* The 10 s chunk timer fires: reader.cancel() and onError; the pending read
\* then resolves as done.
TransportChunkTimeout ==
    /\ transport.pc = "reading"
    /\ LET r == wrappedOnError(handler, isStreamingCompleted, timeoutId, settings)
       IN  /\ handler' = r[1]
           /\ isStreamingCompleted' = r[2]
           /\ timeoutId' = r[3]
    /\ transport' = [transport EXCEPT !.pc = "cancelled", !.error = TRUE,
                                      !.terminalCalls = @ + 1]
    /\ UNCHANGED <<rt, configured, commands, settings, canvasFaults>>

\* getCurrentText() || 'Streaming timed out'
TimedOutText(h) ==
    IF h.currentText = <<>> THEN <<"Streaming timed out">> ELSE h.currentText

\* The watchdog of generateNote fires (streamingTimeout + 10 s after the start).
Watchdog ==
    /\ timeoutId
    /\ LET r == wrappedOnComplete(handler, isStreamingCompleted, timeoutId, TimedOutText(handler))
       IN  /\ handler' = r[1]
           /\ isStreamingCompleted' = TRUE
    /\ timeoutId' = FALSE
    /\ UNCHANGED <<rt, configured, commands, settings, transport, canvasFaults>>

\* The throttle timer set by onToken fires.
ScheduledUpdate ==
    /\ handler.updateTimers > 0
    /\ handler' = scheduleUpdate(handler)
    /\ UNCHANGED <<rt, configured, commands, settings, isStreamingCompleted, timeoutId, transport, canvasFaults>>

\* streamingUpdateInterval passes since the last refresh.
Tick ==
    /\ ~handler.intervalElapsed
    /\ handler' = [handler EXCEPT !.intervalElapsed = TRUE]
    /\ UNCHANGED <<rt, configured, commands, settings, isStreamingCompleted, timeoutId, transport, canvasFaults>>

\* The user acts through the control node, so while it exists.
Pause ==
    /\ handler.controlNode
    /\ ~handler.isPaused
    /\ handler' = pause(handler, settings)
    /\ UNCHANGED <<rt, configured, commands, settings, isStreamingCompleted, timeoutId, transport, canvasFaults>>

Resume ==
    /\ handler.controlNode
    /\ handler.isPaused
    /\ handler' = resume(handler, settings)
    /\ UNCHANGED <<rt, configured, commands, settings, isStreamingCompleted, timeoutId, transport, canvasFaults>>

Stop ==
    /\ handler.controlNode
    /\ handler' = stop(handler)
    /\ UNCHANGED <<rt, configured, commands, settings, isStreamingCompleted, timeoutId, transport, canvasFaults>>

\* forceCompletion: this.onComplete is the wrapped callback.
ForceCompletion ==
    /\ ~handler.isCompleted
    /\ LET r == wrappedOnComplete(handler, isStreamingCompleted, timeoutId, handler.currentText)
       IN  /\ handler' = r[1]
           /\ isStreamingCompleted' = r[2]
           /\ timeoutId' = r[3]
    /\ UNCHANGED <<rt, configured, commands, settings, transport, canvasFaults>>

ControlTimer ==
    /\ handler.controlTimer
    /\ handler' = removeControlNode(handler)
    /\ UNCHANGED <<rt, configured, commands, settings, isStreamingCompleted, timeoutId, transport, canvasFaults>>

ProgressTimer ==
    /\ handler.progressTimer
    /\ handler' = removeProgressNode(handler)
    /\ UNCHANGED <<rt, configured, commands, settings, isStreamingCompleted, timeoutId, transport, canvasFaults>>

Next ==
    \/ TransportToken
    \/ TransportDone
    \/ TransportError
    \/ TransportChunkTimeout
    \/ Watchdog
    \/ ScheduledUpdate
    \/ Tick
    \/ Pause
    \/ Resume
    \/ Stop
    \/ ForceCompletion
    \/ ControlTimer
    \/ ProgressTimer

Spec == Init /\ [][Next]_vars

\* ------------------------------------------------------------------ claims

\* The session is in a terminal state.
Terminal == handler.isCompleted

\* The session ended in Failed: onError wrote its marker into the response note.
Failed == handler.isCompleted /\ handler.canvas[1] = <<ErrorMark>>

\* The text of a canvas node shows the streaming indicator.
endsWithIndicator(text) == text # <<>> /\ text[Len(text)] = Indicator

\* C1: after a streaming session has started it always eventually reaches a
\* terminal state: until it is terminal the watchdog of generateNote stays
\* pending, so that its firing forces Completed whatever tokens, errors, pauses
\* or resumes occurred before.
C1_WatchdogPendingUntilTerminal == ~Terminal => timeoutId

\* C2: once the session is terminal through onComplete, the watchdog or stop, no
\* node created by the session shows the streaming indicator.  (Stated for
\* sessions in which the canvas raised no exception.)
C2_NoIndicatorAfterTerminal ==
    (Terminal /\ ~Failed /\ canvasFaults = 0)
        => \A i \in 1..Len(handler.canvas) : ~endsWithIndicator(handler.canvas[i])

\* C5: once the session is terminal, a later event of the transport (onToken,
\* onComplete, onError) changes neither the text buffer, nor any node's text,
\* nor the session state.
C5_TerminalRejectsEvents ==
    [][(Terminal /\ transport' # transport)
          => /\ handler'.currentText = handler.currentText
             /\ handler'.canvas = handler.canvas
             /\ handler'.isCompleted = handler.isCompleted]_vars

\* C6: tokens that arrive while the session is paused are not lost: whenever the
\* session is streaming and not paused, its buffer holds every token the
\* transport has delivered, in arrival order.
C6_PausedTokensReplayed ==
    (~Terminal /\ ~handler.isPaused) => handler.currentText = transport.fullText

\* C7: when the transport reports its failure through onError to a session that
\* is streaming, the response node gets the error marker and the session moves
\* to Failed.
C7_ErrorMovesToFailed ==
    [][(~Terminal /\ ~transport.error /\ transport'.error)
          => (handler'.isCompleted /\ handler'.canvas[1] = <<ErrorMark>>)]_vars

\* C8: a failure reported while retries are left makes the request be issued
\* again: every retry the handler counts is a further request of the transport.
C8_RetryReissuesRequest ==
    handler.retryCount > 0 => transport.requests >= 1 + handler.retryCount

\* The lines of a text that are neither header lines nor blank, in order.
RECURSIVE contentLinesFrom(_, _)
contentLinesFrom(text, i) ==
    LET e    == lineEnd(text, i)
        line == SubSeq(text, i, e - 1)
        rest == IF e > Len(text) THEN <<>> ELSE contentLinesFrom(text, e + 1)
    IN  IF headerMatch(line) \/ trim(line) = <<>> THEN rest ELSE <<line>> \o rest

contentLines(text) == contentLinesFrom(text, 1)

\* What a canvas node displays of the buffer: its text without the streaming
\* indicator; nothing while it still shows the initial `Calling AI` text.
displayedContent(text) ==
    IF text = Placeholder THEN <<>>
    ELSE IF endsWithIndicator(text) THEN SubSeq(text, 1, Len(text) - 1)
    ELSE text

\* The content lines the Section Nodes k.. of a handler display, concatenated in
\* discovery order.
RECURSIVE displayedLines(_, _)
displayedLines(h, k) ==
    IF k > Len(h.nodeMap) THEN <<>>
    ELSE (IF h.nodeMap[k].canvasNode = 0 THEN <<>>
          ELSE contentLines(displayedContent(h.canvas[h.nodeMap[k].canvasNode])))
         \o displayedLines(h, k + 1)

\* The stream has ended normally: the transport delivered onComplete(fullText)
\* and the session took it.
StreamEnded ==
    /\ Terminal /\ ~Failed
    /\ transport.pc = "returned" /\ ~transport.error
    /\ handler.currentText = transport.fullText

\* C4: at the end of every stream, the displayed contents of the Section Nodes,
\* concatenated in discovery order, hold each non-header line of the final
\* buffer exactly once.  (Stated for sessions in which the canvas raised no
\* exception.)
C4_ContentReconstructsBuffer ==
    (StreamEnded /\ handler.enableLiveSplitting /\ canvasFaults = 0)
        => displayedLines(handler, 1) = contentLines(handler.currentText)

\* The token a step of the transport delivered.
deliveredToken ==
    SubSeq(transport'.fullText, Len(transport.fullText) + 1, Len(transport'.fullText))

\* Every header the scanner reports at or after lastProcessedLength in the new
\* buffer has a Section Node after the step.
newHeadersProcessed ==
    LET newHeaders == headersFrom(parseHeaders(handler'.currentText),
                                  handler.lastProcessedLength)
    IN  \A k \in 1..Len(newHeaders) :
            \E i \in 1..Len(handler'.nodeMap) :
                /\ handler'.nodeMap[i].startIndex = newHeaders[k].startIndex
                /\ handler'.nodeMap[i].headerLevel = newHeaders[k].level

\* C9: an exception raised while creating or positioning the canvas node of a
\* header never aborts the stream: in the step that raises it and in every later
\* step, a token delivered to the streaming session leaves it streaming, is
\* appended to the buffer and has its headers processed, and onComplete still
\* moves the session to Completed.
C9_CanvasFaultDoesNotAbort ==
    [][ /\ ( /\ canvasFaults' > 0
             /\ transport'.tokens > transport.tokens
             /\ ~handler.isCompleted /\ ~handler.isPaused )
           => /\ ~handler'.isCompleted
              /\ handler'.currentText = handler.currentText \o deliveredToken
              /\ handler.enableLiveSplitting => newHeadersProcessed
        /\ ( /\ canvasFaults > 0
             /\ ~handler.isCompleted /\ ~isStreamingCompleted
             /\ transport.pc = "reading" /\ transport'.pc = "returned"
             /\ ~transport'.error )
           => /\ handler'.isCompleted
              /\ handler'.currentText = transport.fullText ]_vars

\* A header's canvas node failed, a later header got its node, and the stream
\* ended normally.
C9_Witness ==
    /\ canvasFaults > 0
    /\ StreamEnded
    /\ Len(handler.nodeMap) >= 3
    /\ handler.nodeMap[2].canvasNode = 0
    /\ handler.nodeMap[3].canvasNode # 0

\* ---------------------------------------------------------------------------
\* One text, two deliveries.  Two StreamingHandlers in tree-building mode get
\* the same text: one as a single onToken call, one a character per onToken
\* call; each is then completed with the transport's full text.

\* The texts: one to MaxPieces pieces put together.
RECURSIVE DocsOf(_)
DocsOf(n) ==
    IF n = 0 THEN { <<>> }
    ELSE LET shorter == DocsOf(n - 1)
         IN  shorter \cup { d \o p : d \in shorter, p \in Pieces }

Docs == DocsOf(MaxPieces) \ { <<>> }

TreeSettings ==
    [enableMarkdownSplitting |-> TRUE, enableStreamingSplit |-> TRUE,
     enableStreamingControls |-> FALSE, showStreamingProgress |-> FALSE,
     streamingRetryAttempts |-> 0, enableMarkdownHierarchy |-> TRUE,
     enableStreaming |-> TRUE]

InitRT ==
    /\ settings = TreeSettings
    /\ handler = newStreamingHandler(settings)
    /\ isStreamingCompleted = FALSE
    /\ timeoutId = TRUE
    /\ transport = NewTransport
    /\ canvasFaults = 0
    /\ configured = settings
    /\ commands = <<>>
    /\ \E doc \in Docs :
           rt = [doc |-> doc, fed |-> 0,
                 oneShot |-> newStreamingHandler(settings),
                 charByChar |-> newStreamingHandler(settings)]

RTUnchanged ==
    UNCHANGED <<settings, handler, isStreamingCompleted, timeoutId, transport,
                canvasFaults, configured, commands>>

\* The whole text arrives in one chunk holding one token.
FeedWhole ==
    /\ ~rt.oneShot.isCompleted
    /\ rt.oneShot.currentText = <<>>
    /\ rt' = [rt EXCEPT !.oneShot = onToken(@, rt.doc, "none")]
    /\ RTUnchanged

\* The next character arrives as a token of its own.
FeedChar ==
    /\ ~rt.charByChar.isCompleted
    /\ rt.fed < Len(rt.doc)
    /\ rt' = [rt EXCEPT !.fed = @ + 1,
                        !.charByChar = onToken(@, <<rt.doc[rt.fed + 1]>>, "none")]
    /\ RTUnchanged

CompleteOneShot ==
    /\ ~rt.oneShot.isCompleted
    /\ rt.oneShot.currentText = rt.doc
    /\ rt' = [rt EXCEPT !.oneShot = onComplete(@, rt.doc)]
    /\ RTUnchanged

CompleteCharByChar ==
    /\ ~rt.charByChar.isCompleted
    /\ rt.fed = Len(rt.doc)
    /\ rt' = [rt EXCEPT !.charByChar = onComplete(@, rt.doc)]
    /\ RTUnchanged

NextRT ==
    \/ FeedWhole
    \/ FeedChar
    \/ CompleteOneShot
    \/ CompleteCharByChar

SpecRT == InitRT /\ [][NextRT]_vars

\* The Section Tree of a handler: per node its level, header text and parent.
sectionTree(h) ==
    [i \in 1..Len(h.nodeMap) |->
        [headerLevel |-> h.nodeMap[i].headerLevel,
         headerText  |-> h.nodeMap[i].headerText,
         parentId    |-> h.nodeMap[i].parentId]]

\* C3: for every text, the one-shot delivery and the character-by-character
\* delivery, both completed, give the same Section Tree (levels, header texts,
\* parent links).
C3_SameTreeForAnyTokenization ==
    (rt.oneShot.isCompleted /\ rt.charByChar.isCompleted)
        => sectionTree(rt.oneShot) = sectionTree(rt.charByChar)

\* ---------------------------------------------------------------------------
\* Commands running at the same time.  The three generating commands of
\* noteGenerator close over one settings object; each builds a StreamingHandler
\* of its own and awaits callAIStreaming, and other commands start while it
\* waits.

CommandNames == {"generateNote", "generateHierarchicalMindmap", "generateSingleAIResponse"}

IdleCommand ==
    [pc |-> "idle", originalSplittingEnabled |-> FALSE, tokens |-> 0,
     streamingHandler |-> newStreamingHandler(TreeSettings)]

InitConc ==
    /\ settings \in { [s EXCEPT !.enableStreaming = enableStreaming] :
                         s \in { c \in SettingsSpace :
                                    ~c.enableStreamingControls /\ c.streamingRetryAttempts = 0 },
                         enableStreaming \in BOOLEAN }
    /\ configured = settings
    /\ commands = [c \in CommandNames |-> IdleCommand]
    /\ handler = newStreamingHandler(settings)
    /\ isStreamingCompleted = FALSE
    /\ timeoutId = TRUE
    /\ transport = NewTransport
    /\ canvasFaults = 0
    /\ rt = <<>>

ConcUnchanged ==
    UNCHANGED <<handler, isStreamingCompleted, timeoutId, transport, canvasFaults,
                rt, configured>>

\* generateNote up to its await of callAIStreaming
StartGenerateNote ==
    /\ commands["generateNote"].pc = "idle"
    /\ settings.enableStreaming
    /\ commands' = [commands EXCEPT !["generateNote"] =
                       [@ EXCEPT !.pc = "streaming",
                                 !.streamingHandler = newStreamingHandler(settings)]]
    /\ UNCHANGED settings
    /\ ConcUnchanged

\* generateHierarchicalMindmap up to its await of callAIStreaming
StartGenerateHierarchicalMindmap ==
    /\ commands["generateHierarchicalMindmap"].pc = "idle"
    /\ settings' = [settings EXCEPT !.enableMarkdownSplitting = TRUE]
    /\ commands' = [commands EXCEPT !["generateHierarchicalMindmap"] =
                       [@ EXCEPT !.pc = "streaming",
                                 !.originalSplittingEnabled = settings.enableMarkdownSplitting,
                                 !.streamingHandler = newStreamingHandler(settings')]]
    /\ ConcUnchanged

\* generateSingleAIResponse up to its await of callAIStreaming or, with
\* streaming disabled, of callAI (no handler is built then).
StartGenerateSingleAIResponse ==
    /\ commands["generateSingleAIResponse"].pc = "idle"
    /\ settings' = [settings EXCEPT !.enableMarkdownSplitting = FALSE]
    /\ commands' = [commands EXCEPT !["generateSingleAIResponse"] =
                       IF settings.enableStreaming
                       THEN [@ EXCEPT !.pc = "streaming",
                                      !.originalSplittingEnabled = settings.enableMarkdownSplitting,
                                      !.streamingHandler = newStreamingHandler(settings')]
                       ELSE [@ EXCEPT !.pc = "calling",
                                      !.originalSplittingEnabled = settings.enableMarkdownSplitting]]
    /\ ConcUnchanged

\* The transport of a running command delivers a token to its handler.
CommandToken ==
    \E c \in CommandNames, token \in Tokens :
        /\ commands[c].pc = "streaming"
        /\ commands[c].tokens < MaxCommandTokens
        /\ commands' = [commands EXCEPT ![c] =
                           [@ EXCEPT !.tokens = @ + 1,
                                     !.streamingHandler = onToken(@, token, "none")]]
        /\ UNCHANGED settings
        /\ ConcUnchanged

\* The transport of a running command calls onComplete and returns; the command
\* resumes after its await and restores what it saved.
CommandReturns ==
    \E c \in CommandNames :
        /\ commands[c].pc = "streaming"
        /\ commands' = [commands EXCEPT ![c] =
                           [@ EXCEPT !.pc = "done",
                                     !.streamingHandler = onComplete(@, @.currentText)]]
        /\ settings' = IF c = "generateNote" THEN settings
                       ELSE [settings EXCEPT !.enableMarkdownSplitting =
                                                 commands[c].originalSplittingEnabled]
        /\ ConcUnchanged

\* callAI of generateSingleAIResponse settles: with a text the command shows it
\* and restores what it saved; with no text it returns, and when callAI threw the
\* catch block runs, both without restoring.
CallAIReturns ==
    \E outcome \in {"text", "null", "threw"} :
        /\ commands["generateSingleAIResponse"].pc = "calling"
        /\ commands' = [commands EXCEPT !["generateSingleAIResponse"].pc = "returned"]
        /\ settings' = IF outcome = "text"
                       THEN [settings EXCEPT !.enableMarkdownSplitting =
                                commands["generateSingleAIResponse"].originalSplittingEnabled]
                       ELSE settings
        /\ ConcUnchanged

NextConc ==
    \/ StartGenerateNote
    \/ StartGenerateHierarchicalMindmap
    \/ StartGenerateSingleAIResponse
    \/ CommandToken
    \/ CommandReturns
    \/ CallAIReturns

SpecConc == InitConc /\ [][NextConc]_vars

\* The mode a command's session has when the command runs alone under the
\* configured settings.
modeOfItsOwn(c) ==
    IF c = "generateHierarchicalMindmap" THEN configured.enableStreamingSplit
    ELSE IF c = "generateSingleAIResponse" THEN FALSE
    ELSE configured.enableMarkdownSplitting /\ configured.enableStreamingSplit

\* C10: sessions running at the same time are independent: the mode of a
\* session (tree building or single note) is the one its own command and the
\* configured settings give it, whatever other sessions are running.
C10_SessionsShareNoMode ==
    \A c \in CommandNames :
        commands[c].pc \in {"streaming", "done"}
            => commands[c].streamingHandler.enableLiveSplitting = modeOfItsOwn(c)

\* ---------------------------------------------------------------------------
\* A step in which the transport delivered a token.
tokenDelivered == transport'.tokens > transport.tokens

\* A step in which the timer callback of scheduleUpdate ran.
refreshRan == handler'.updateTimers < handler.updateTimers

\* C11: at most one display refresh is pending at any time, and the tokens that
\* arrive within one throttle window are coalesced into one refresh: the arrival
\* of a token rewrites no canvas node by itself, and the scheduled refresh shows
\* the buffer with the last token in it.
C11_TokensCoalescedIntoOneRefresh ==
    [][ /\ handler'.updateTimers <= 1
        /\ tokenDelivered
             => \A i \in 1..Len(handler.canvas) : handler'.canvas[i] = handler.canvas[i]
        /\ (refreshRan /\ ~handler.enableLiveSplitting)
             => handler'.canvas[1] = displayText(handler, handler.currentText) ]_vars

\* C12: stop() moves the session directly to Completed with the text buffer
\* exactly as accumulated so far, and the progress and control nodes are gone
\* when the call returns, not removed later by a timer.
C12_StopCompletesAtOnce ==
    [][ Stop => /\ handler'.isCompleted
                /\ ~handler'.isPaused
                /\ handler'.currentText = handler.currentText
                /\ ~handler'.controlNode
                /\ ~handler'.progressNode ]_vars

\* A streaming session that had received text and showed its progress and control
\* nodes was stopped: only stop completes the handler behind generateNote's
\* wrappers.
C12_Witness ==
    /\ handler.isCompleted /\ ~isStreamingCompleted
    /\ transport.pc = "reading"
    /\ Len(handler.currentText) > 0
    /\ settings.enableStreamingControls /\ settings.showStreamingProgress
    /\ ~handler.controlNode /\ ~handler.progressNode
    /\ ~handler.controlTimer /\ ~handler.progressTimer

\* The lines of a text, in order.
RECURSIVE linesFrom(_, _)
linesFrom(text, i) ==
    LET e == lineEnd(text, i)
    IN  <<SubSeq(text, i, e - 1)>>
        \o (IF e > Len(text) THEN <<>> ELSE linesFrom(text, e + 1))

\* The canvas node of nodeMap[i] displays the header line of nodeMap[j].
displaysHeaderLineOf(h, i, j) ==
    LET shown == linesFrom(displayedContent(h.canvas[h.nodeMap[i].canvasNode]), 1)
    IN  \E k \in 1..Len(shown) :
            /\ headerMatch(shown[k])
            /\ hashRun(shown[k]) = h.nodeMap[j].headerLevel
            /\ headerTextOf(shown[k]) = h.nodeMap[j].headerText

\* C13: at every point of a stream, the displayed text of a Section Node holds
\* none of its children's header lines.
C13_ParentShowsNoChildHeader ==
    \A i, j \in 1..Len(handler.nodeMap) :
        ( /\ handler.nodeMap[j].parentId = handler.nodeMap[i].id
          /\ handler.nodeMap[i].canvasNode # 0 )
            => ~displaysHeaderLineOf(handler, i, j)

\* ---------------------------------------------------------------------------
\* The level of the first header of a text, 0 if it has none.
firstHeaderLevel(text) ==
    LET headers == parseHeaders(text)
    IN  IF headers = <<>> THEN 0 ELSE headers[1].level

\* The two deliveries of the text are complete.
bothCompleted == rt.oneShot.isCompleted /\ rt.charByChar.isCompleted

\* The handlers of the two deliveries.
deliveries == { rt.oneShot, rt.charByChar }

\* C14: only headers at firstHeaderLevel and at firstHeaderLevel + 1 become
\* Section Nodes: a header deeper than firstHeaderLevel + 1 creates no node.
C14_OnlyTwoLevelsMaterialized ==
    bothCompleted =>
        \A h \in deliveries : \A i \in 2..Len(h.nodeMap) :
            h.nodeMap[i].headerLevel <= firstHeaderLevel(rt.doc) + 1

\* The id of the node discovered last before nodeMap[i] among those at the
\* level `level`; the root's id if there is none.
latestAtLevelBefore(h, i, level) ==
    LET at == { j \in 2..(i - 1) : h.nodeMap[j].headerLevel = level }
    IN  IF at = {} THEN h.nodeMap[1].id
        ELSE h.nodeMap[CHOOSE j \in at : \A k \in at : k <= j].id

\* C15: every header at firstHeaderLevel is attached to the root, and every
\* header at firstHeaderLevel + 1 to the most recent node at firstHeaderLevel
\* (to the root if there is none yet), in whatever order the levels appear.
C15_ParentByFirstHeaderLevel ==
    bothCompleted =>
        \A h \in deliveries : \A i \in 2..Len(h.nodeMap) :
            /\ h.nodeMap[i].headerLevel = firstHeaderLevel(rt.doc)
                 => h.nodeMap[i].parentId = h.nodeMap[1].id
            /\ h.nodeMap[i].headerLevel = firstHeaderLevel(rt.doc) + 1
                 => h.nodeMap[i].parentId
                        = latestAtLevelBefore(h, i, firstHeaderLevel(rt.doc))

\* ---------------------------------------------------------------------------
\* The nodes of the tree that have a canvas node.
withCanvasNode(h) == { i \in 1..Len(h.nodeMap) : h.nodeMap[i].canvasNode # 0 }

\* C16: at every point of a stream in tree-building mode, no two nodes of the
\* tree start at the same offset, and the node that receives trailing text is
\* the one node with the greatest start among the nodes that have a canvas node.
C16_ActiveNodeIsUniqueLatest ==
    handler.enableLiveSplitting =>
        /\ \A i, j \in 1..Len(handler.nodeMap) :
               i # j => handler.nodeMap[i].startIndex # handler.nodeMap[j].startIndex
        /\ LET active == getCurrentActiveTreeNode(handler)
           IN  /\ active \in withCanvasNode(handler)
               /\ \A k \in withCanvasNode(handler) \ {active} :
                      handler.nodeMap[k].startIndex < handler.nodeMap[active].startIndex

\* The end offset of no node of h decreases from h to g.
endIndexKept(h, g) ==
    \A i \in 1..Len(h.nodeMap) :
        i <= Len(g.nodeMap) => g.nodeMap[i].endIndex >= h.nodeMap[i].endIndex

\* C17: for every Section Node, the end offset of its content span never
\* decreases: each step of a session leaves it equal to or greater than before.
C17_EndIndexNeverDecreases ==
    [][ /\ endIndexKept(rt.oneShot, rt'.oneShot)
        /\ endIndexKept(rt.charByChar, rt'.charByChar) ]_vars

\* ---------------------------------------------------------------------------
\* The canvas node of the parent of nodeMap[i], 0 if it has none.
parentCanvasNode(h, i) == nodeById(h, h.nodeMap[i].parentId).canvasNode

\* C18: a Section Node without a canvas node is never the layout anchor or an
\* edge endpoint of another node: a child's canvas node is placed relative to
\* and connected to its parent's canvas node only if that one was created
\* before; otherwise it is placed from the note the user asked from.
C18_NoAnchorWithoutCanvasNode ==
    /\ \A c \in 1..Len(handler.anchors) :
           \/ handler.anchors[c].parentNode
           \/ handler.anchors[c].canvasNode \in 1..(c - 1)
    /\ \A e \in handler.edges :
           e[1] \in 1..Len(handler.canvas) /\ e[2] \in 1..Len(handler.canvas)
    /\ \A i \in 2..Len(handler.nodeMap) :
           LET c == handler.nodeMap[i].canvasNode
               pc == parentCanvasNode(handler, i)
           IN  c # 0 =>
                 /\ pc = 0 => ( /\ handler.anchors[c].parentNode
                                /\ \A e \in handler.edges : e[2] # c )
                 /\ pc # 0 => handler.anchors[c].canvasNode = pc

\* A header's node got no canvas node, and a later header below it got one.
C18_Witness ==
    \E i \in 2..Len(handler.nodeMap) :
        /\ handler.nodeMap[i].canvasNode # 0
        /\ handler.nodeMap[i].parentId # handler.nodeMap[1].id
        /\ parentCanvasNode(handler, i) = 0

\* The first header of the buffer starts at offset 0 and has its node.
firstHeaderAtOffsetZero(h) ==
    /\ h.enableLiveSplitting
    /\ Len(h.nodeMap) >= 2
    /\ h.nodeMap[2].startIndex = 0

\* C19: if the first header of the stream starts at buffer offset 0, the root
\* placeholder is retired: the root stays in the tree without a canvas node, so
\* that the placeholder note neither goes on showing the initial text nor
\* receives streamed text.
C19_RootRetiredWhenNoPreamble ==
    firstHeaderAtOffsetZero(handler) =>
        /\ handler.nodeMap[1].canvasNode = 0
        /\ getCurrentActiveTreeNode(handler) # 1

\* The transport ends a stream that delivered nothing: onComplete("") reaches a
\* streaming session with no token before it.
emptyStreamCompletes ==
    /\ TransportDone
    /\ transport.pc = "reading" /\ transport.tokens = 0
    /\ ~handler.isCompleted /\ ~isStreamingCompleted
    /\ handler.currentText = <<>>

\* C20: an empty stream creates no Section Node other than the root placeholder
\* and makes no canvas call other than removing the placeholder: no note is
\* created and the text of no note is set.
C20_EmptyStreamTouchesNothing ==
    [][ emptyStreamCompletes =>
          /\ handler'.isCompleted
          /\ handler'.nodeMap = handler.nodeMap
          /\ handler'.canvas = handler.canvas ]_vars


\* ============================================================ Layout Engine
\* The layout code of the mindmap generator (src/src/noteGenerator.ts 440-1105).
\*
\* Numbers are fixed point: coordinates and sizes are whole pixels, angles are
\* in units of 1/10000 radian, sines and cosines are scaled by 10000, importance
\* and the spacing multiplier are in tenths, the simulation's alpha and the
\* results of Math.random() are scaled by 10000.  A section text is a sequence
\* whose elements are single characters or whole keywords ("method", "note:");
\* "[fence]" is the code fence of three backquotes.

\* Sections one call of the layout receives.
MaxSections == 5
\* Times the layout is run on one input.
MaxRuns == 2
\* Steps of the force simulation that are run.
MaxTicks == 1

\* Math.PI
PI == 31416

\* The value of an expression that is computed once: the(S) for a set S of one
\* element.
the(S) == CHOOSE x \in S : TRUE

abs(a) == IF a < 0 THEN -a ELSE a

\* a / b rounded toward zero.
quot(a, b) == IF (a < 0) = (b < 0) THEN abs(a) \div abs(b) ELSE -(abs(a) \div abs(b))

\* Math.sin: the argument is reduced to [-PI/2, PI/2] and the series is summed
\* up to the ninth power.
sin(a) ==
    LET r  == a % (2 * PI)
        x  == IF r > (3 * PI) \div 2 THEN r - 2 * PI
              ELSE IF r > PI \div 2 THEN PI - r ELSE r
        ax == abs(x)
        x2 == (ax * ax) \div 10000
        t3 == ((ax * x2) \div 10000) \div 6
        t5 == ((t3 * x2) \div 10000) \div 20
        t7 == ((t5 * x2) \div 10000) \div 42
        t9 == ((t7 * x2) \div 10000) \div 72
        s  == ax - t3 + t5 - t7 + t9
    IN  IF x < 0 THEN -s ELSE s

\* Math.cos
cos(a) == sin(a + PI \div 2)

\* Math.sqrt, rounded down.
sqrt(n) ==
    LET RECURSIVE sqrtFrom(_)
        sqrtFrom(x) == IF (x + n \div x) \div 2 >= x THEN x
                       ELSE sqrtFrom((x + n \div x) \div 2)
    IN  IF n <= 0 THEN 0 ELSE sqrtFrom(n)

\* String.prototype.includes for a keyword.
includes(text, word) == \E i \in 1..Len(text) : text[i] = word

detectContentType(text) ==
    LET \* text.match(/\d+\./)
        numbered == \E i \in 1..(Len(text) - 1) :
                        text[i] \in {"0", "1", "2", "3", "4", "5", "6", "7", "8", "9"}
                        /\ text[i + 1] = "."
        \* text.match(/^#{1,6}\s/m): a line starts with one to six '#' and whitespace
        matchesHeaderLine ==
            \E k \in 1..Len(linesFrom(text, 1)) :
                LET line == linesFrom(text, 1)[k]
                    n    == hashRun(line)
                IN  n >= 1 /\ n <= 6 /\ Len(line) > n /\ isSpace(line[n + 1])
        \* a line starts, after whitespace, with a list marker
        ls == linesFrom(text, 1)
        listed == \E k \in 1..Len(ls) :
                      LET t == trimStart(ls[k])
                      IN  t # <<>> /\ Head(t) \in {"-", "*", "+"}
    IN  IF includes(text, "layout") \/ includes(text, "algorithm")
           \/ includes(text, "method")
        THEN IF includes(text, "force") \/ includes(text, "physics")
                 THEN "algorithm-force"
             ELSE IF includes(text, "hierarchical") \/ includes(text, "tree")
                     \/ includes(text, "layered")
                 THEN "algorithm-hierarchical"
             ELSE IF includes(text, "radial") \/ includes(text, "circular")
                 THEN "algorithm-radial"
             ELSE IF includes(text, "organic") \/ includes(text, "natural")
                 THEN "algorithm-organic"
             ELSE "algorithm"
        ELSE IF includes(text, "[fence]") THEN "code"
        ELSE IF includes(text, "step") /\ numbered THEN "steps"
        ELSE IF listed THEN "list"
        ELSE IF includes(text, "example") THEN "example"
        ELSE IF includes(text, "important") \/ includes(text, "note:")
                \/ includes(text, "warning") THEN "important"
        ELSE IF includes(text, "summary") \/ includes(text, "conclusion")
             THEN "summary"
        ELSE IF matchesHeaderLine THEN "structured"
        ELSE "general"

\* The importance of a section, in tenths.
calculateImportance(text, contentType) ==
    LET byType ==
            IF contentType \in {"algorithm-force", "algorithm-hierarchical",
                                "algorithm-radial", "algorithm-organic"}
            THEN 30 + (IF contentType = "algorithm-force" THEN 5 ELSE 0)
                    + (IF contentType = "algorithm-hierarchical" THEN 3 ELSE 0)
            ELSE (IF contentType = "code" THEN 20 ELSE 0)
                 + (IF contentType = "important" THEN 20 ELSE 0)
                 + (IF contentType = "structured" THEN 10 ELSE 0)
                 + (IF contentType = "summary" THEN 15 ELSE 0)
                 + (IF contentType = "steps" THEN 12 ELSE 0)
        byLength == (IF Len(text) > 500 THEN 10 ELSE 0)
                    + (IF Len(text) > 1000 THEN 10 ELSE 0)
        \* text.match(/^#{1,6}\s/m): a line starts with one to six '#' and whitespace
        matchesHeaderLine ==
            \E k \in 1..Len(linesFrom(text, 1)) :
                LET line == linesFrom(text, 1)[k]
                    n    == hashRun(line)
                IN  n >= 1 /\ n <= 6 /\ Len(line) > n /\ isSpace(line[n + 1])
        algorithmKeywordCount ==
            Cardinality({ w \in {"layout", "algorithm", "method", "approach",
                                 "technique"} : includes(text, w) })
        generalKeywordCount ==
            Cardinality({ w \in {"important", "key", "main", "primary",
                                 "essential", "critical"} : includes(text, w) })
        importance ==
            10 + byType + byLength + algorithmKeywordCount * 7
            + generalKeywordCount * 5
            + (IF matchesHeaderLine THEN 8 ELSE 0)
            + (IF includes(text, "Steps") \/ includes(text, "Part") THEN 6 ELSE 0)
    IN  IF importance < 60 THEN importance ELSE 60

calculateNodeDimensions(text) ==
    LET contentLength == Len(text)
        lineCount     == Len(linesFrom(text, 1))
        contentType   == detectContentType(text)
        atLeast(a, b) == IF a > b THEN a ELSE b
        atMost(a, b)  == IF a < b THEN a ELSE b
        \* calcHeight of the canvas patches: 28 pixels a visual line of 50
        \* characters, 12 pixels of padding, at least 60 pixels
        ls == linesFrom(text, 1)
        visual(k) == IF trim(ls[k]) = <<>> \/ Len(ls[k]) <= 50 THEN 1
                     ELSE (Len(ls[k]) + 49) \div 50
        RECURSIVE total(_)
        total(k) == IF k = 0 THEN 0 ELSE visual(k) + total(k - 1)
        calcHeight == atLeast(60, 12 + 28 * total(Len(ls)))
        baseWidth ==
            CASE contentType = "code" ->
                     atLeast(350, atMost((contentLength * 32) \div 10, 600))
              [] contentType \in {"list", "steps"} ->
                     atLeast(280, atMost((contentLength * 25) \div 10, 500))
              [] contentType = "important" ->
                     atLeast(320, atMost(contentLength * 3, 550))
              [] OTHER ->
                     atLeast(280, atMost((contentLength * 28) \div 10, 520))
        baseHeight ==
            CASE contentType = "code" -> atLeast(120, lineCount * 35)
              [] contentType \in {"list", "steps"} -> atLeast(100, lineCount * 30)
              [] contentType = "important" -> atLeast(110, lineCount * 32)
              [] OTHER -> atLeast(calcHeight, 80)
    IN  [width  |-> baseWidth + (IF lineCount > 3 THEN 40 ELSE 0),
         height |-> IF lineCount > 5 THEN baseHeight + 25 ELSE baseHeight]

\* layoutNodes of calculateOptimalPositions: one Layout Node per section.
layoutNodesOf(sections) ==
    [i \in 1..Len(sections) |->
        LET contentType == detectContentType(sections[i])
            dimensions  == calculateNodeDimensions(sections[i])
        IN  [id |-> i - 1, text |-> sections[i],
             width |-> dimensions.width, height |-> dimensions.height,
             contentType |-> contentType,
             importance |-> calculateImportance(sections[i], contentType)]]


\* resolveCollisions.  A Layout Node refers to its position object: ref[i] is the
\* object of node i and positions[ref[i]] its value, so that two nodes that hold
\* the same object move together.
resolveCollisions(nodes, ref, initial, budget) ==
    LET \* detectCollision: the bounding boxes, inflated by the padding, meet
        detectCollision(node1, node2, p1, p2, padding) ==
            /\ abs(p1.x - p2.x) * 2 < node1.width + node2.width + 2 * padding
            /\ abs(p1.y - p2.y) * 2 < node1.height + node2.height + 2 * padding
        \* one pass over the pairs (i, j), i < j, from (i, j) on
        RECURSIVE resolvePass(_, _, _, _)
        resolvePass(positions, i, j, hasCollisions) ==
            IF i > Len(nodes)
            THEN [positions |-> positions, hasCollisions |-> hasCollisions]
            ELSE IF j > Len(nodes) THEN resolvePass(positions, i + 1, i + 2, hasCollisions)
            ELSE
              LET p1 == positions[ref[i]]
                  p2 == positions[ref[j]]
                  dx == p2.x - p1.x
                  dy == p2.y - p1.y
                  distance == sqrt(dx * dx + dy * dy)
                  minDistance == (nodes[i].width + nodes[j].width) \div 2 + 100
                  totalImportance == nodes[i].importance + nodes[j].importance
                  \* (d * force / 4) * ratio, force = (minDistance - distance) / distance
                  move(d, importance) ==
                      quot(d * (minDistance - distance) * importance,
                           distance * 4 * totalImportance)
                  moved1 == [positions EXCEPT
                               ![ref[i]].x = @ - move(dx, nodes[j].importance),
                               ![ref[i]].y = @ - move(dy, nodes[j].importance)]
                  moved2 == [moved1 EXCEPT
                               ![ref[j]].x = @ + move(dx, nodes[i].importance),
                               ![ref[j]].y = @ + move(dy, nodes[i].importance)]
              IN  IF detectCollision(nodes[i], nodes[j], p1, p2, 50)
                  THEN the({ resolvePass(next, i, j + 1, TRUE) :
                               next \in {IF distance > 0 THEN moved2 ELSE positions} })
                  ELSE resolvePass(positions, i, j + 1, hasCollisions)
        RECURSIVE resolve(_, _)
        resolve(positions, iterations) ==
            IF iterations = 0 THEN positions
            ELSE the({ IF ~pass.hasCollisions THEN pass.positions
                       ELSE resolve(pass.positions, iterations - 1) :
                         pass \in {resolvePass(positions, 1, 2, FALSE)} })
    IN  resolve(initial, budget)

\* A layout strategy gives each node a new position object and returns the
\* objects in the order it made them: placed[k].node is the node (1-based) the
\* k-th returned position was made for.
createHierarchicalLayout(nodes, centerX, centerY, multiplier) ==
    LET layers == << [key |-> "primary",   radius |-> (600 * multiplier) \div 10,  maxPerLayer |-> 4],
                     [key |-> "secondary", radius |-> (900 * multiplier) \div 10,  maxPerLayer |-> 6],
                     [key |-> "tertiary",  radius |-> (1200 * multiplier) \div 10, maxPerLayer |-> 8] >>
        keyOf(node) == IF node.contentType = "structured" THEN "primary"
                       ELSE IF node.contentType = "important" THEN "secondary"
                       ELSE "tertiary"
        grouped(key) == SelectSeq([i \in 1..Len(nodes) |-> i],
                                  LAMBDA i : keyOf(nodes[i]) = key)
        inLayer(layerIndex) ==
            LET layer      == layers[layerIndex + 1]
                layerNodes == grouped(layer.key)
                spaces     == IF Len(layerNodes) < layer.maxPerLayer
                              THEN Len(layerNodes) ELSE layer.maxPerLayer
            IN  [k \in 1..Len(layerNodes) |->
                    LET angleStep == (2 * PI) \div spaces
                        angle     == angleStep * (k - 1)
                    IN  [node |-> layerNodes[k],
                         position |->
                            [x |-> centerX + quot(cos(angle) * layer.radius, 10000),
                             y |-> centerY + quot(sin(angle) * layer.radius, 10000),
                             bias |-> IF angle < PI THEN "top" ELSE "bottom",
                             level |-> layerIndex,
                             importance |-> nodes[layerNodes[k]].importance]]]
    IN  inLayer(0) \o inLayer(1) \o inLayer(2)

createOrganicLayout(nodes, centerX, centerY, multiplier) ==
    LET \* Array.prototype.sort with a comparator a.key - b.key: stable, ascending
        RECURSIVE stableSort(_, _)
        stableSort(s, key) ==
            IF s = <<>> THEN <<>>
            ELSE LET h == Head(s)
                     r == stableSort(Tail(s), key)
                 IN  SelectSeq(r, LAMBDA e : key[e] < key[h]) \o <<h>>
                     \o SelectSeq(r, LAMBDA e : key[e] >= key[h])
        groupKey(node) ==
            IF node.contentType \in {"algorithm-force", "algorithm-hierarchical",
                                     "algorithm-radial", "algorithm-organic"}
            THEN "algorithms" ELSE node.contentType
        indices == [i \in 1..Len(nodes) |-> i]
        \* the groups in the order of their first node
        firsts == SelectSeq(indices, LAMBDA i :
                      \A j \in 1..(i - 1) : groupKey(nodes[j]) # groupKey(nodes[i]))
        priorityOrder == <<"algorithms", "summary", "important", "code", "steps",
                           "list", "general">>
        priority(key) == IF \E p \in 1..7 : priorityOrder[p] = key
                         THEN (CHOOSE p \in 1..7 : priorityOrder[p] = key) - 1
                         ELSE 999
        sortedGroups == stableSort(firsts, [i \in 1..Len(nodes) |->
                                               priority(groupKey(nodes[i]))])
        totalGroups == Len(sortedGroups)
        angleStep == (2 * PI) \div (IF totalGroups > 4 THEN totalGroups ELSE 4)
        inGroup(g) ==
            LET groupIndex == g - 1
                groupNodes == SelectSeq(indices, LAMBDA i :
                                  groupKey(nodes[i]) = groupKey(nodes[sortedGroups[g]]))
                sortedGroupNodes ==
                    stableSort(groupNodes, [i \in 1..Len(nodes) |-> -nodes[i].importance])
                size == Len(sortedGroupNodes)
                angleVariation == quot(sin(groupIndex * 7000) * 3, 10)
                groupAngle == angleStep * groupIndex + angleVariation
                dirX == cos(groupAngle)
                dirY == sin(groupAngle)
                maxSpread == ((IF 100 + size * 30 < 200 THEN 100 + size * 30 ELSE 200)
                              * multiplier) \div 10
            IN  [k \in 1..size |->
                    LET nodeIndex == k - 1
                        baseDistance == 600 + (nodeIndex * 350 * multiplier) \div 10
                        distance == baseDistance
                                    + quot(sin(nodeIndex * 11000 + groupIndex * 10000) * 80, 10000)
                        perpOffset ==
                            IF size > 1
                            THEN quot((2 * nodeIndex - (size - 1)) * maxSpread, 2 * (size - 1))
                                 + quot(cos(nodeIndex * 14000 + groupIndex * 8000) * 50, 10000)
                            ELSE 0
                    IN  [node |-> sortedGroupNodes[k],
                         position |->
                            [x |-> centerX + quot(dirX * distance - dirY * perpOffset, 10000),
                             y |-> centerY + quot(dirY * distance + dirX * perpOffset, 10000),
                             bias |-> IF abs(dirX) > abs(dirY)
                                      THEN (IF dirX > 0 THEN "right" ELSE "left")
                                      ELSE (IF dirY > 0 THEN "bottom" ELSE "top"),
                             level |-> nodeIndex,
                             importance |-> nodes[sortedGroupNodes[k]].importance]]]
        RECURSIVE upTo(_)
        upTo(g) == IF g = 0 THEN <<>> ELSE upTo(g - 1) \o inGroup(g)
    IN  upTo(totalGroups)

\* The angles of typeAngles; 0 stands for a missing or a zero entry, both of
\* which make the lookup falsy.
typeAngles(contentType) ==
    CASE contentType = "algorithm" -> 0
      [] contentType = "algorithm-force" -> 2000
      [] contentType = "algorithm-hierarchical" -> 4000
      [] contentType = "algorithm-radial" -> 6000
      [] contentType = "algorithm-organic" -> 8000
      [] contentType = "code" -> PI \div 2
      [] contentType = "steps" -> PI
      [] contentType = "list" -> PI + 5000
      [] contentType = "example" -> (3 * PI) \div 2
      [] contentType = "important" -> (3 * PI) \div 2 + 5000
      [] contentType = "summary" -> 2 * PI - 5000
      [] contentType = "structured" -> 2 * PI - 10000
      [] contentType = "general" -> 15000
      [] OTHER -> 0

\* typeAngles[contentType] || Math.random() * 2 * Math.PI
getContentTypeAngle(contentType, random) ==
    IF typeAngles(contentType) # 0 THEN typeAngles(contentType)
    ELSE quot(random * 2 * PI, 10000)

\* The bias and the record a simulation hands back for the point (x, y).
simulatedPosition(x0, y0, centerX, centerY, level, importance) ==
    LET x  == IF x0 # 0 THEN x0 ELSE centerX
        y  == IF y0 # 0 THEN y0 ELSE centerY
        dx == x - centerX
        dy == y - centerY
    IN  [x |-> x, y |-> y,
         bias |-> IF abs(dx) > abs(dy) THEN (IF dx > 0 THEN "right" ELSE "left")
                  ELSE (IF dy > 0 THEN "bottom" ELSE "top"),
         level |-> level, importance |-> importance,
         distance |-> sqrt(dx * dx + dy * dy)]

\* createForceDirectedLayout.  The forces of the d3 library (charge, collision,
\* centre) are not part of the repository; the two forces the repository
\* defines, contentGrouping and radial, act in every step.  random[<<t, i>>] is
\* what Math.random() returns for node i in step t.
createForceDirectedLayout(nodes, centerX, centerY, multiplier, random) ==
    LET n == Len(nodes)
        start == [i \in 1..n |->
                    [x |-> centerX + quot(cos(((2 * PI) * (i - 1)) \div n) * 20 * multiplier, 10000),
                     y |-> centerY + quot(sin(((2 * PI) * (i - 1)) \div n) * 20 * multiplier, 10000)]]
        contentGrouping(d, alpha, t) ==
            IF alpha < 1000 THEN d
            ELSE [i \in 1..n |->
                    IF d[i].x = 0 \/ d[i].y = 0 THEN d[i]
                    ELSE LET groupAngle == getContentTypeAngle(nodes[i].contentType,
                                               IF <<t, i>> \in DOMAIN random
                                               THEN random[<<t, i>>] ELSE 0)
                             groupRadius == 40 * multiplier
                             targetX == centerX + quot(cos(groupAngle) * groupRadius, 10000)
                             targetY == centerY + quot(sin(groupAngle) * groupRadius, 10000)
                         IN  [x |-> d[i].x + quot((targetX - d[i].x) * 2 * alpha, 1000000),
                              y |-> d[i].y + quot((targetY - d[i].y) * 2 * alpha, 1000000)]]
        radial(d, alpha) ==
            LET minRadius == 25 * multiplier
            IN  [i \in 1..n |->
                    IF d[i].x = 0 \/ d[i].y = 0 THEN d[i]
                    ELSE LET dx == d[i].x - centerX
                             dy == d[i].y - centerY
                             distance == sqrt(dx * dx + dy * dy)
                             push(c) == quot(quot(c * (minRadius - distance) * 100, distance)
                                             * (alpha \div 100), 100000)
                         IN  IF distance > 0 /\ distance < minRadius
                             THEN [x |-> d[i].x + push(dx), y |-> d[i].y + push(dy)]
                             ELSE d[i]]
        RECURSIVE tick(_, _, _)
        tick(d, alpha, iterations) ==
            IF ~(alpha > 10 /\ iterations < 300) \/ iterations >= MaxTicks THEN d
            ELSE LET decayed == alpha - (alpha * 2) \div 100
                 IN  the({ IF iterations + 1 > 50 /\ decayed < 100 THEN after
                           ELSE tick(after, decayed, iterations + 1) :
                             after \in { radial(grouped, decayed) :
                                 grouped \in {contentGrouping(d, decayed, iterations + 1)} } })
        positioned(settled) ==
            [i \in 1..n |->
                LET at == simulatedPosition(settled[i].x, settled[i].y, centerX, centerY,
                                            0, nodes[i].importance)
                IN  [node |-> i,
                     position |-> [x |-> at.x, y |-> at.y, bias |-> at.bias,
                                   level |-> at.distance \div (20 * multiplier),
                                   importance |-> at.importance]]]
    IN  the({ positioned(settled) :
                settled \in { tick(d, 10000, 0) : d \in {start} } })

\* createHybridLayout: the force layout up to six nodes; beyond, the important
\* nodes are fixed where the hierarchical layout puts them and the others start
\* on a circle (the simulation has library forces only).
createHybridLayout(nodes, centerX, centerY, multiplier, random) ==
    IF Len(nodes) <= 6
    THEN createForceDirectedLayout(nodes, centerX, centerY, multiplier, random)
    ELSE the({
           [i \in 1..Len(nodes) |->
               the({ [node |-> i,
                      position |-> [x |-> at.x, y |-> at.y, bias |-> at.bias,
                                    level |-> at.level, importance |-> at.importance]] :
                     at \in {
                       IF nodes[i].importance >= 40
                       THEN \* fx, fy of an important node
                            the({ simulatedPosition(
                                      IF fixed.x # 0 THEN fixed.x
                                      ELSE centerX + quot(cos(((2 * PI) * (i - 1)) \div Len(nodes))
                                                          * 30 * multiplier, 10000),
                                      IF fixed.y # 0 THEN fixed.y
                                      ELSE centerY + quot(sin(((2 * PI) * (i - 1)) \div Len(nodes))
                                                          * 30 * multiplier, 10000),
                                      centerX, centerY, 0, nodes[i].importance) :
                                  fixed \in { importantPositions[
                                                 CHOOSE k \in 1..Len(important) :
                                                     important[k] = i].position } })
                       ELSE simulatedPosition(
                                centerX + quot(cos(((2 * PI) * (i - 1)) \div Len(nodes))
                                               * 30 * multiplier, 10000),
                                centerY + quot(sin(((2 * PI) * (i - 1)) \div Len(nodes))
                                               * 30 * multiplier, 10000),
                                centerX, centerY, 1, nodes[i].importance) } })] :
           important \in { SelectSeq([i \in 1..Len(nodes) |-> i],
                                     LAMBDA i : nodes[i].importance >= 40) },
           importantPositions \in {
               createHierarchicalLayout(
                   SelectSeq(nodes, LAMBDA node : node.importance >= 40),
                   centerX, centerY, multiplier) } })

\* calculateOptimalPositions.  Each iteration of the forEach runs the strategy on
\* all nodes, which gives every node a new position object, and then stores the
\* index-th returned object in the index-th node; the objects of the last
\* iteration are the ones that remain.  The result tells, next to the returned
\* positions, whose object each returned position is.
calculateOptimalPositions(sections, centerX, centerY, multiplier, layoutAlgorithm, random) ==
    LET n == Len(sections)
        distance == 70 * multiplier
        crossPositions ==
            << [x |-> centerX, y |-> centerY - distance, bias |-> "top", level |-> 0, importance |-> 10],
               [x |-> centerX + (distance * 12) \div 10, y |-> centerY, bias |-> "right", level |-> 0, importance |-> 10],
               [x |-> centerX, y |-> centerY + distance, bias |-> "bottom", level |-> 0, importance |-> 10],
               [x |-> centerX - (distance * 12) \div 10, y |-> centerY, bias |-> "left", level |-> 0, importance |-> 10] >>
    IN  IF n = 0 THEN [positions |-> <<>>, objects |-> <<>>]
        ELSE IF n <= 4
        THEN [positions |-> SubSeq(crossPositions, 1, n), objects |-> [i \in 1..n |-> i]]
        ELSE \* nodes: layoutNodes; placed: what the strategy returns; ref: the
             \* object each node holds after the last iteration; positions: the
             \* objects the strategy made, by the node they were made for
             the({ the({ the({ the({ [positions |-> [i \in 1..n |-> resolved[ref[i]]],
                                      objects |-> ref] :
                                     resolved \in {
                                         IF layoutAlgorithm \in {"organic", "hierarchical"}
                                         THEN resolveCollisions(nodes, ref, positions, 10)
                                         ELSE positions } }) :
                               ref \in { [i \in 1..n |->
                                            IF i < n THEN i ELSE placed[n].node] },
                               positions \in { [i \in 1..n |->
                                   placed[CHOOSE k \in 1..n : placed[k].node = i].position] } }) :
                         placed \in {
                             CASE layoutAlgorithm = "hierarchical" ->
                                      createHierarchicalLayout(nodes, centerX, centerY, multiplier)
                               [] layoutAlgorithm = "force" ->
                                      createForceDirectedLayout(nodes, centerX, centerY,
                                                                multiplier, random)
                               [] layoutAlgorithm = "hybrid" ->
                                      createHybridLayout(nodes, centerX, centerY,
                                                         multiplier, random)
                               [] OTHER ->
                                      createOrganicLayout(nodes, centerX, centerY, multiplier) } }) :
                   nodes \in { layoutNodesOf(sections) } })

\* ------------------------------------------------- specification SpecLayout
\* The sections a layout is asked for: a header section ('structured'), a note
\* ('important'), plain text ('general') and the description of a method
\* ('algorithm').
SectionTexts == { <<HASH, SP, "a">>, <<"note:">>, <<"a">>, <<"method">> }

\* The layout is asked for up to MaxSections sections around the anchor (0, 0),
\* with the multiplier of settings.mindmapSpacing (compact 0.8, normal 1.2,
\* spacious 1.6) and one of the algorithms of settings.mindmapLayoutAlgorithm.
InitLayout ==
    /\ settings = TreeSettings
    /\ handler = newStreamingHandler(settings)
    /\ isStreamingCompleted = FALSE
    /\ timeoutId = TRUE
    /\ transport = NewTransport
    /\ canvasFaults = 0
    /\ configured = settings
    /\ commands = <<>>
    /\ \E n \in 0..MaxSections, multiplier \in {8, 12, 16},
          layoutAlgorithm \in {"radial", "hierarchical", "organic", "force", "hybrid"} :
        \E sections \in [1..n -> SectionTexts] :
           rt = [sections |-> sections, centerX |-> 0, centerY |-> 0,
                 multiplier |-> multiplier, layoutAlgorithm |-> layoutAlgorithm,
                 runs |-> <<>>]

\* The layout is run on the input once more.  Math.random() is called in every
\* step of the simulation for every node whose content type has no angle of its
\* own, and returns 0 or 0.5.
CalculateOptimalPositions ==
    LET randomCalls ==
            IF rt.layoutAlgorithm \in {"force", "hybrid"} /\ Len(rt.sections) > 4
            THEN { c \in (1..MaxTicks) \X (1..Len(rt.sections)) :
                     typeAngles(detectContentType(rt.sections[c[2]])) = 0 }
            ELSE {}
    IN  /\ Len(rt.runs) < MaxRuns
        /\ \E random \in [randomCalls -> {0, 5000}] :
               rt' = [rt EXCEPT !.runs = Append(@,
                          calculateOptimalPositions(rt.sections, rt.centerX, rt.centerY,
                              rt.multiplier, rt.layoutAlgorithm, random))]
        /\ RTUnchanged

SpecLayout == InitLayout /\ [][CalculateOptimalPositions]_vars

\* C21: for every strategy the layout returns exactly one position per input
\* node, the i-th position being the one made for the i-th node, and no
\* position is shared between two nodes.
C21_OnePositionPerNodeInOrder ==
    \A r \in 1..Len(rt.runs) :
        LET run == rt.runs[r]
            n   == Len(rt.sections)
        IN  /\ Len(run.positions) = n
            /\ \A i \in 1..n : run.objects[i] = i
            /\ \A i, j \in 1..n : i < j => \/ run.positions[i].x # run.positions[j].x
                                             \/ run.positions[i].y # run.positions[j].y

\* C22: in the hierarchical layout every ring holds at most its maximum number
\* of nodes (4, 6 and 8 from the innermost ring outward), the nodes beyond it
\* going to the next ring, and no two nodes of one ring are put at the same
\* angle, i.e. at the same point of the ring.
C22_RingsHoldAtMostTheirMaximum ==
    (rt.layoutAlgorithm = "hierarchical" /\ Len(rt.sections) > 4 /\ rt.runs # <<>>) =>
        \A placed \in { createHierarchicalLayout(layoutNodesOf(rt.sections),
                            rt.centerX, rt.centerY, rt.multiplier) } :
            \A ring \in 0..2 :
                LET onRing == { k \in 1..Len(placed) : placed[k].position.level = ring }
                IN  /\ Cardinality(onRing) <= <<4, 6, 8>>[ring + 1]
                    /\ \A k, m \in onRing :
                           k < m => \/ placed[k].position.x # placed[m].position.x
                                    \/ placed[k].position.y # placed[m].position.y

\* C23: every layout strategy is deterministic: two runs of the layout on the
\* same sections, anchor, spacing and algorithm return the same positions.
C23_LayoutIsDeterministic ==
    \A r, s \in 1..Len(rt.runs) : rt.runs[r].positions = rt.runs[s].positions

\* C24: for five or more sections of equal size, after the organic or the
\* hierarchical layout and the collision resolution no two returned positions
\* are the same point or closer than the diagonal of a node plus the margin (the
\* padding of 50 pixels the collision test uses).
C24_NoTwoPositionsTooClose ==
    \A nodes \in { layoutNodesOf(rt.sections) } :
        ( /\ Len(nodes) >= 5
          /\ rt.layoutAlgorithm \in {"organic", "hierarchical"}
          /\ \A i \in 1..Len(nodes) : /\ nodes[i].width = nodes[1].width
                                      /\ nodes[i].height = nodes[1].height )
        => \A r \in 1..Len(rt.runs), i, j \in 1..Len(nodes) :
               i < j =>
                 LET p  == rt.runs[r].positions[i]
                     q  == rt.runs[r].positions[j]
                     apart == sqrt(nodes[1].width * nodes[1].width
                                   + nodes[1].height * nodes[1].height) + 50
                 IN  /\ p.x # q.x \/ p.y # q.y
                     /\ (p.x - q.x) * (p.x - q.x) + (p.y - q.y) * (p.y - q.y)
                            >= apart * apart

\* ================================================================ Edge Router
\* calculateOptimalEdgeRouting and its helpers (src/src/noteGenerator.ts
\* 1418-1571).  A canvas node is a record [id, x, y, width, height]; coordinates
\* and sizes are whole pixels and sizes are even, so that the midpoints of the
\* sides are whole pixels too.

\* Siblings already on the canvas when an edge is routed.
MaxSiblings == 2

getConnectionPoint(node, side) ==
    CASE side = "top"    -> [x |-> node.x + node.width \div 2, y |-> node.y]
      [] side = "right"  -> [x |-> node.x + node.width, y |-> node.y + node.height \div 2]
      [] side = "bottom" -> [x |-> node.x + node.width \div 2, y |-> node.y + node.height]
      [] side = "left"   -> [x |-> node.x, y |-> node.y + node.height \div 2]
      [] OTHER -> [x |-> node.x + node.width \div 2, y |-> node.y + node.height \div 2]

\* The crossings of the edge fromSide -> toSide with the other edges, each of
\* which is taken to run from the parent's centre to the centre of a node.
countEdgeCrossings(parentNode, childNode, allNodes, fromSide, toSide) ==
    LET \* the coordinates are whole numbers: the denominator is below 0.001 iff
        \* it is 0, and 0 <= u / d <= 1 iff u lies between 0 and d
        within(u, d) == IF d > 0 THEN 0 <= u /\ u <= d ELSE d <= u /\ u <= 0
        lineSegmentsIntersect(p1, p2, p3, p4) ==
            LET denominator == (p4.y - p3.y) * (p2.x - p1.x) - (p4.x - p3.x) * (p2.y - p1.y)
                ua == (p4.x - p3.x) * (p1.y - p3.y) - (p4.y - p3.y) * (p1.x - p3.x)
                ub == (p2.x - p1.x) * (p1.y - p3.y) - (p2.y - p1.y) * (p1.x - p3.x)
            IN  denominator # 0 /\ within(ua, denominator) /\ within(ub, denominator)
        fromPoint == getConnectionPoint(parentNode, fromSide)
        toPoint   == getConnectionPoint(childNode, toSide)
    IN  Cardinality({ k \in 1..Len(allNodes) :
            /\ allNodes[k].id # parentNode.id
            /\ allNodes[k].id # childNode.id
            /\ lineSegmentsIntersect(fromPoint, toPoint,
                   getConnectionPoint(parentNode, "center"),
                   getConnectionPoint(allNodes[k], "center")) })

\* connectionOptions after the sort by priority (the sort is stable and the
\* list is written in priority order).
connectionOptions(parentNode, childNode, preferredBias) ==
    LET getOppositeSide(side) ==
            CASE side = "top" -> "bottom" [] side = "bottom" -> "top"
              [] side = "left" -> "right" [] side = "right" -> "left"
              [] OTHER -> "top"
        dx == (childNode.x + childNode.width \div 2) - (parentNode.x + parentNode.width \div 2)
        dy == (childNode.y + childNode.height \div 2) - (parentNode.y + parentNode.height \div 2)
        \* getSideFromAngle(normalizedAngle), the angle being atan2(dy, dx) in
        \* [0, 2 PI): right on [0, PI/4) and (7 PI/4, 2 PI), bottom on
        \* [PI/4, 3 PI/4), left on [3 PI/4, 5 PI/4), top otherwise
        side == IF (dx > 0 /\ abs(dy) < dx) \/ (dx = 0 /\ dy = 0) THEN "right"
                ELSE IF dy > 0 /\ dx <= dy /\ dx > -dy THEN "bottom"
                ELSE IF dx < 0 /\ dy <= -dx /\ dy > dx THEN "left"
                ELSE "top"
        turned(bias, across) ==
            IF preferredBias = bias /\ side = across THEN bias ELSE side
        fromSide == CASE preferredBias = "top"    -> turned("top", "bottom")
                      [] preferredBias = "right"  -> turned("right", "left")
                      [] preferredBias = "bottom" -> turned("bottom", "top")
                      [] preferredBias = "left"   -> turned("left", "right")
                      [] OTHER -> side
        \* the tests of the second `if` of a case read the fromSide the first
        \* `if` has just set
        toSide ==
            CASE preferredBias = "top" /\ fromSide \in {"left", "right"} -> "bottom"
              [] preferredBias = "right" /\ fromSide \in {"top", "bottom"} -> "left"
              [] preferredBias = "bottom" /\ fromSide \in {"left", "right"} -> "top"
              [] preferredBias = "left" /\ fromSide \in {"top", "bottom"} -> "right"
              [] OTHER -> getOppositeSide(side)
    IN  << [from |-> fromSide, to |-> toSide, priority |-> 1],
           [from |-> fromSide, to |-> getOppositeSide(fromSide), priority |-> 2],
           [from |-> getOppositeSide(fromSide), to |-> toSide, priority |-> 3],
           [from |-> "top", to |-> "bottom", priority |-> 4],
           [from |-> "right", to |-> "left", priority |-> 4],
           [from |-> "bottom", to |-> "top", priority |-> 4],
           [from |-> "left", to |-> "right", priority |-> 4] >>

calculateOptimalEdgeRouting(parentNode, childNode, allNodes, preferredBias) ==
    LET options == connectionOptions(parentNode, childNode, preferredBias)
        good == { k \in 1..7 :
                    countEdgeCrossings(parentNode, childNode, allNodes,
                                       options[k].from, options[k].to) <= 1 }
        chosen == IF good # {} THEN CHOOSE k \in good : \A m \in good : k <= m ELSE 1
    IN  [fromSide |-> options[chosen].from, toSide |-> options[chosen].to]

\* ------------------------------------------------- specification SpecRouter
\* The parent is a 400 x 200 note centred at (0, 0).  The child and the siblings
\* created before it are notes of the same size, centred on a grid; the child
\* does not overlap the parent.  The bias is one a layout strategy assigns.
InitRouter ==
    /\ settings = TreeSettings
    /\ handler = newStreamingHandler(settings)
    /\ isStreamingCompleted = FALSE
    /\ timeoutId = TRUE
    /\ transport = NewTransport
    /\ canvasFaults = 0
    /\ configured = settings
    /\ commands = <<>>
    /\ \E cx \in {-600, 0, 600}, cy \in {-400, -200, 0, 200, 400},
          n \in 0..MaxSiblings,
          preferredBias \in {"top", "right", "bottom", "left", "center"} :
        \E centres \in [1..n -> {-800, -400, 0, 400, 800, 1200}
                                \X {-600, -400, -200, 0, 200, 400, 600}] :
           /\ abs(cx) >= 400 \/ abs(cy) >= 200
           /\ rt = [parentNode |-> [id |-> 0, x |-> -200, y |-> -100,
                                    width |-> 400, height |-> 200],
                    childNode |-> [id |-> n + 1, x |-> cx - 200, y |-> cy - 100,
                                   width |-> 400, height |-> 200],
                    allNodes |-> [k \in 1..(n + 1) |->
                                    IF k <= n
                                    THEN [id |-> k, x |-> centres[k][1] - 200,
                                          y |-> centres[k][2] - 100,
                                          width |-> 400, height |-> 200]
                                    ELSE [id |-> n + 1, x |-> cx - 200, y |-> cy - 100,
                                          width |-> 400, height |-> 200]],
                    preferredBias |-> preferredBias,
                    routed |-> FALSE, fromSide |-> "", toSide |-> ""]

\* The edge from the parent to the new child is routed.
CalculateOptimalEdgeRouting ==
    /\ ~rt.routed
    /\ \E edgeRouting \in { calculateOptimalEdgeRouting(rt.parentNode, rt.childNode,
                                rt.allNodes, rt.preferredBias) } :
           rt' = [rt EXCEPT !.routed = TRUE, !.fromSide = edgeRouting.fromSide,
                            !.toSide = edgeRouting.toSide]
    /\ RTUnchanged

SpecRouter == InitRouter /\ [][CalculateOptimalEdgeRouting]_vars

\* The square of the length of the edge from the parent's side `from` to the
\* child's side `to`.
edgeLength2(from, to) ==
    LET p == getConnectionPoint(rt.parentNode, from)
        q == getConnectionPoint(rt.childNode, to)
    IN  (p.x - q.x) * (p.x - q.x) + (p.y - q.y) * (p.y - q.y)

\* C25: for two rectangles that do not overlap and no other edge, the router
\* chooses the closest pair of facing sides (right-left, left-right, top-bottom
\* or bottom-top) whatever the bias: a child strictly to the right of its parent
\* gets fromSide = right and toSide = left.
C25_ClosestFacingSidesWhateverBias ==
    (rt.routed /\ Len(rt.allNodes) = 1) =>
        LET facing == { <<"right", "left">>, <<"left", "right">>,
                        <<"top", "bottom">>, <<"bottom", "top">> }
        IN  /\ <<rt.fromSide, rt.toSide>> \in facing
            /\ \A f \in facing :
                   edgeLength2(rt.fromSide, rt.toSide) <= edgeLength2(f[1], f[2])
            /\ (rt.childNode.x > rt.parentNode.x + rt.parentNode.width
                /\ rt.childNode.y = rt.parentNode.y)
                   => (rt.fromSide = "right" /\ rt.toSide = "left")

\* C26: the router returns the first candidate, in priority order, that crosses
\* at most one other edge; if every candidate crosses more than one, it returns
\* a candidate of the lowest cost, the cost being the length of the edge plus a
\* penalty for every crossing that is larger than any length.
C26_FirstGoodElseLowestCost ==
    rt.routed =>
        LET options == connectionOptions(rt.parentNode, rt.childNode, rt.preferredBias)
            crossings(from, to) ==
                countEdgeCrossings(rt.parentNode, rt.childNode, rt.allNodes, from, to)
            cheaper(k, m) ==
                \/ crossings(options[k].from, options[k].to)
                       < crossings(options[m].from, options[m].to)
                \/ /\ crossings(options[k].from, options[k].to)
                          = crossings(options[m].from, options[m].to)
                   /\ edgeLength2(options[k].from, options[k].to)
                          < edgeLength2(options[m].from, options[m].to)
            returned == { k \in 1..7 : /\ options[k].from = rt.fromSide
                                       /\ options[k].to = rt.toSide }
            good == { k \in 1..7 : crossings(options[k].from, options[k].to) <= 1 }
        IN  IF good # {}
            THEN \E k \in good \cap returned : \A m \in good : k <= m
            ELSE \E k \in returned : \A m \in 1..7 : ~cheaper(m, k)

\* ======================================================== Batch Splitter
\* The splitter of a whole markdown text (src/src/util/markdownSplitter.ts,
\* HierarchicalMarkdownSplitter; src/unnamed/part_008, MarkdownHeaderTextSplitter).
\* The two classes share parseMarkdownSections, createNodesFromSections and
\* establishRelationships line for line; they differ in the chunker an oversized
\* section is handed to: part_008 has its own, simpleSplitText, and
\* markdownSplitter.ts calls a library.  The chunker modelled is simpleSplitText.
\*
\* An id is a record: [section |-> k, part |-> 1] is 'section-k' and
\* [section |-> k, part |-> p] with p > 1 is 'section-k-part-p'.  The optional
\* parentId is a sequence: <<>> when the field is undefined, <<id>> otherwise.

\* Lines of one markdown text.
MaxLines == 4

\* simpleSplitText: windows of chunkSize characters, each starting chunkOverlap
\* characters before the end of the one before.
simpleSplitText(text, config) ==
    LET RECURSIVE windows(_)
        windows(start) ==
            LET end == IF Len(text) < start + config.chunkSize THEN Len(text)
                       ELSE start + config.chunkSize
            IN  IF end >= Len(text) THEN << slice(text, start, end) >>
                ELSE << slice(text, start, end) >> \o windows(end - config.chunkOverlap)
    IN  IF Len(text) <= config.chunkSize THEN << text >> ELSE windows(0)

parseMarkdownSections(text, config) ==
    LET lines == linesFrom(text, 1)
        \* a header line that gets a section of its own
        processable(k) == headerMatch(lines[k])
                          /\ hashRun(lines[k]) <= config.maxHeaderLevel
        \* the line at which both inner loops stop
        RECURSIVE stopAt(_)
        stopAt(j) == IF j > Len(lines) \/ processable(j) THEN j ELSE stopAt(j + 1)
        \* lines a..b, each followed by a line break
        RECURSIVE each(_, _)
        each(a, b) == IF a > b THEN <<>> ELSE lines[a] \o <<NL>> \o each(a + 1, b)
        \* lines a..b joined by line breaks
        join(a, b) == IF a > b THEN <<>> ELSE SubSeq(each(a, b), 1, Len(each(a, b)) - 1)
        RECURSIVE scan(_, _, _)
        scan(i, currentIndex, sections) ==
            IF i > Len(lines) THEN sections
            ELSE IF headerMatch(lines[i])
            THEN IF hashRun(lines[i]) > config.maxHeaderLevel
                 THEN scan(i + 1, currentIndex + Len(lines[i]) + 1, sections)
                 ELSE LET sectionContent == each(i, stopAt(i + 1) - 1)
                      IN  scan(i + 1, currentIndex + Len(lines[i]) + 1,
                               Append(sections,
                                      [id |-> [section |-> Len(sections), part |-> 1],
                                       headerLevel |-> hashRun(lines[i]),
                                       headerText |-> headerTextOf(lines[i]),
                                       content |-> trim(sectionContent),
                                       startIndex |-> currentIndex,
                                       endIndex |-> currentIndex + Len(sectionContent)]))
            ELSE IF i = 1 \/ sections = <<>>
            THEN LET j == stopAt(i)
                     content == trim(join(i, j - 1))
                 IN  scan(j, currentIndex + Len(lines[i]) + 1,
                          IF \E k \in i..(j - 1) : trim(lines[k]) # <<>>
                          THEN Append(sections,
                                      [id |-> [section |-> Len(sections), part |-> 1],
                                       headerLevel |-> 0,
                                       headerText |-> <<"Introduction">>,
                                       content |-> content,
                                       startIndex |-> currentIndex,
                                       endIndex |-> currentIndex + Len(content)])
                          ELSE sections)
            ELSE scan(i + 1, currentIndex + Len(lines[i]) + 1, sections)
    IN  scan(1, 0, <<>>)

\* refineSections (refineSectionsWithLangChain in markdownSplitter.ts): a section
\* longer than chunkSize becomes one section a chunk, all of its header level.
refineSections(sections, config) ==
    LET pieces(section) ==
            LET chunks == simpleSplitText(section.content, config)
                RECURSIVE startOf(_)
                startOf(i) == IF i = 1 THEN section.startIndex
                              ELSE startOf(i - 1) + Len(chunks[i - 1])
            IN  [i \in 1..Len(chunks) |->
                    [id |-> IF i = 1 THEN section.id
                            ELSE [section |-> section.id.section, part |-> i],
                     headerLevel |-> section.headerLevel,
                     headerText |-> IF i = 1 THEN section.headerText
                                    ELSE section.headerText
                                         \o <<SP, "(continued", SP, ToString(i), ")">>,
                     content |-> trim(chunks[i]),
                     startIndex |-> startOf(i),
                     endIndex |-> startOf(i) + Len(chunks[i])]]
        RECURSIVE refined(_)
        refined(k) ==
            IF k = 0 THEN <<>>
            ELSE IF Len(sections[k].content) <= config.chunkSize
                 THEN Append(refined(k - 1), sections[k])
                 ELSE refined(k - 1) \o pieces(sections[k])
    IN  refined(Len(sections))

createNodesFromSections(sections) ==
    [k \in 1..Len(sections) |->
        [id |-> sections[k].id, content |-> sections[k].content,
         headerLevel |-> sections[k].headerLevel,
         headerText |-> sections[k].headerText,
         parentId |-> <<>>, children |-> <<>>,
         startIndex |-> sections[k].startIndex,
         endIndex |-> sections[k].endIndex]]

\* establishRelationships with nothing ever taken from the stack: the parent of
\* a header node is the header node just before it.
establishRelationshipsWithoutPop(nodes) ==
    LET before(k) == { j \in 1..(k - 1) : nodes[j].headerLevel > 0 }
        top(k)    == CHOOSE j \in before(k) : \A i \in before(k) : i <= j
        linked(k) == nodes[k].headerLevel > 0 /\ before(k) # {}
        links     == SelectSeq([k \in 1..Len(nodes) |-> k], LAMBDA k : linked(k))
        kids(j)   == SelectSeq(links, LAMBDA k : top(k) = j)
    IN  [updatedNodes |->
             [k \in 1..Len(nodes) |->
                 [nodes[k] EXCEPT
                     !.parentId = IF linked(k) THEN <<nodes[top(k)].id>> ELSE <<>>,
                     !.children = [i \in 1..Len(kids(k)) |-> nodes[kids(k)[i]].id]]],
         edges |-> [i \in 1..Len(links) |->
                       [from |-> nodes[top(links[i])].id, to |-> nodes[links[i]].id,
                        type |-> "parent-child"]]]

\* nodeStack holds the positions of the stacked nodes in the list.
establishRelationships(nodes) ==
    LET RECURSIVE popped(_, _)
        popped(nodeStack, node) ==
            IF nodeStack # <<>>
               /\ nodes[nodeStack[Len(nodeStack)]].headerLevel >= node.headerLevel
               /\ node.headerLevel > 0
            THEN popped(SubSeq(nodeStack, 1, Len(nodeStack) - 1), node)
            ELSE nodeStack
        RECURSIVE visit(_, _, _, _)
        visit(k, updatedNodes, edges, nodeStack) ==
            IF k > Len(nodes) THEN [updatedNodes |-> updatedNodes, edges |-> edges]
            ELSE \* the stack after the while loop
                 the({ IF stack # <<>> /\ nodes[k].headerLevel > 0
                       THEN visit(k + 1,
                                  [updatedNodes EXCEPT
                                      ![k].parentId = <<nodes[stack[Len(stack)]].id>>,
                                      ![stack[Len(stack)]].children =
                                          Append(@, nodes[k].id)],
                                  Append(edges, [from |-> nodes[stack[Len(stack)]].id,
                                                 to |-> nodes[k].id,
                                                 type |-> "parent-child"]),
                                  Append(stack, k))
                       ELSE visit(k + 1, updatedNodes, edges,
                                  IF nodes[k].headerLevel > 0 THEN Append(stack, k)
                                  ELSE stack)
                       : stack \in { popped(nodeStack, nodes[k]) } })
    IN  visit(1, nodes, <<>>, <<>>)

splitMarkdown(text, config) ==
    LET headerSections  == parseMarkdownSections(text, config)
        refinedSections == refineSections(headerSections, config)
        nodes           == createNodesFromSections(refinedSections)
        related         == establishRelationships(nodes)
        parentless      == SelectSeq(related.updatedNodes,
                                     LAMBDA node : node.parentId = <<>>)
    IN  [nodes |-> related.updatedNodes,
         edges |-> related.edges,
         rootNodes |-> [k \in 1..Len(parentless) |-> parentless[k].id]]

\* toCanvasNodes with the header level of a node taken for its depth.
toCanvasNodesByHeaderLevel(result) ==
    [k \in 1..Len(result.nodes) |->
        [id |-> result.nodes[k].id, content |-> result.nodes[k].content,
         level |-> result.nodes[k].headerLevel,
         parentId |-> result.nodes[k].parentId,
         position |-> [x |-> result.nodes[k].headerLevel * 300, y |-> (k - 1) * 180]]]

\* toCanvasNodes.  yOffset, which goes up by one at every push, is the number
\* of canvas nodes pushed so far.
toCanvasNodes(result) ==
    LET \* result.nodes.find(n => n.id === nodeId)
        found(nodeId) == { k \in 1..Len(result.nodes) : result.nodes[k].id = nodeId }
        first(nodeId) == CHOOSE k \in found(nodeId) : \A j \in found(nodeId) : k <= j
        RECURSIVE processNode(_, _, _)
        RECURSIVE forEach(_, _, _, _)
        processNode(canvasNodes, nodeId, level) ==
            IF found(nodeId) = {} THEN canvasNodes
            ELSE forEach(Append(canvasNodes,
                                [id |-> result.nodes[first(nodeId)].id,
                                 content |-> result.nodes[first(nodeId)].content,
                                 level |-> result.nodes[first(nodeId)].headerLevel,
                                 parentId |-> result.nodes[first(nodeId)].parentId,
                                 position |-> [x |-> level * 300,
                                               y |-> Len(canvasNodes) * 180]]),
                         result.nodes[first(nodeId)].children, 1, level + 1)
        forEach(canvasNodes, ids, i, level) ==
            IF i > Len(ids) THEN canvasNodes
            ELSE the({ forEach(pushed, ids, i + 1, level) :
                         pushed \in { processNode(canvasNodes, ids[i], level) } })
    IN  forEach(<<>>, result.rootNodes, 1, 0)

\* ------------------------------------------- one call of splitMarkdownForCanvas

\* The lines the texts are made of: headers of three levels, a line of text
\* and an empty line.
MarkdownLines ==
    { <<HASH, SP, "a">>, <<HASH, HASH, SP, "a">>, <<HASH, HASH, HASH, SP, "a">>,
      <<"a">>, <<>> }

\* The texts of n lines.
RECURSIVE MarkdownsOf(_)
MarkdownsOf(n) ==
    IF n = 1 THEN MarkdownLines
    ELSE { text \o <<NL>> \o line : text \in MarkdownsOf(n - 1), line \in MarkdownLines }

\* The configurations: the defaults (chunkSize 1000, chunkOverlap 200, which no
\* text here exceeds) and chunks of four characters, at three settings of
\* maxHeaderLevel.
SplitterConfigs ==
    { [chunkSize |-> c[1], chunkOverlap |-> c[2], maxHeaderLevel |-> m] :
        c \in { <<1000, 200>>, <<4, 0>>, <<4, 1>> }, m \in {1, 2, 6} }

InitSplitter ==
    /\ settings = TreeSettings
    /\ handler = newStreamingHandler(settings)
    /\ isStreamingCompleted = FALSE
    /\ timeoutId = TRUE
    /\ transport = NewTransport
    /\ canvasFaults = 0
    /\ configured = settings
    /\ commands = <<>>
    /\ \E n \in 1..MaxLines : \E text \in MarkdownsOf(n) : \E config \in SplitterConfigs :
           rt = [text |-> text, config |-> config, returned |-> FALSE,
                 result |-> [nodes |-> <<>>, edges |-> <<>>, rootNodes |-> <<>>],
                 converted |-> FALSE, canvasNodes |-> <<>>]

\* await splitter.splitMarkdown(text)
SplitMarkdown ==
    /\ ~rt.returned
    /\ rt' = [rt EXCEPT !.returned = TRUE,
                        !.result = splitMarkdown(rt.text, rt.config)]
    /\ RTUnchanged

\* splitter.toCanvasNodes(result)
ToCanvasNodes ==
    /\ rt.returned
    /\ ~rt.converted
    /\ rt' = [rt EXCEPT !.converted = TRUE,
                        !.canvasNodes = toCanvasNodes(rt.result)]
    /\ RTUnchanged

NextSplitter ==
    \/ SplitMarkdown
    \/ ToCanvasNodes

SpecSplitter == InitSplitter /\ [][NextSplitter]_vars

\* ---------------------------------------------------- claims C27 to C30

\* C27: in the result of splitMarkdown the parent of every node with header
\* level L >= 1 is the nearest node before it, in document order, whose header
\* level is between 1 and L - 1; a node with no such node before it has no
\* parent and is listed among the roots; a node of level 0 has no parent, has
\* no children and is at neither end of an edge.
C27_ParentIsNearestShallowerHeader ==
    rt.returned =>
        \A nodes \in { rt.result.nodes } :
            \A k \in 1..Len(nodes) :
                LET L == nodes[k].headerLevel
                    shallower == { j \in 1..(k - 1) :
                                     nodes[j].headerLevel >= 1
                                     /\ nodes[j].headerLevel <= L - 1 }
                    nearest == CHOOSE j \in shallower : \A i \in shallower : i <= j
                    isRoot == \E r \in 1..Len(rt.result.rootNodes) :
                                  rt.result.rootNodes[r] = nodes[k].id
                    isEdgeEnd == \E e \in 1..Len(rt.result.edges) :
                                     \/ rt.result.edges[e].from = nodes[k].id
                                     \/ rt.result.edges[e].to = nodes[k].id
                IN  /\ L >= 1 /\ shallower # {}
                       => nodes[k].parentId = <<nodes[nearest].id>> /\ ~isRoot
                    /\ L >= 1 /\ shallower = {}
                       => nodes[k].parentId = <<>> /\ isRoot
                    /\ L = 0
                       => /\ nodes[k].parentId = <<>>
                          /\ nodes[k].children = <<>>
                          /\ ~isEdgeEnd
                          /\ \A j \in 1..Len(nodes) :
                                 nodes[j].parentId # <<nodes[k].id>>

\* A text with a preamble, whose third header has its parent two headers back.
C27_Witness ==
    /\ rt.returned
    /\ \E k \in 1..Len(rt.result.nodes) : rt.result.nodes[k].headerLevel = 0
    /\ \E k \in 3..Len(rt.result.nodes) : \E j \in 1..(k - 2) :
           /\ rt.result.nodes[k].parentId = <<rt.result.nodes[j].id>>
           /\ \A i \in (j + 1)..(k - 1) :
                  rt.result.nodes[i].headerLevel >= rt.result.nodes[k].headerLevel

\* C28: in the result of splitMarkdown the content of every node with a header
\* level of 1 or more is the text from its own header line up to, and without,
\* the next header line of a level not above maxHeaderLevel (or up to the end of
\* the text), trimmed: it holds no line of a sub-header or of a following
\* header, and no text after such a line.
C28_ContentIsOwnHeaderLineToNextHeader ==
    rt.returned =>
        \A lines \in { linesFrom(rt.text, 1) } :
            LET isHeader(i) == headerMatch(lines[i])
                               /\ hashRun(lines[i]) <= rt.config.maxHeaderLevel
                following(i) == { j \in (i + 1)..Len(lines) : isHeader(j) }
                last(i) == IF following(i) = {} THEN Len(lines)
                           ELSE (CHOOSE j \in following(i) :
                                     \A h \in following(i) : j <= h) - 1
                RECURSIVE span(_, _)
                span(a, b) == IF a > b THEN <<>>
                              ELSE IF a = b THEN lines[a]
                              ELSE lines[a] \o <<NL>> \o span(a + 1, b)
            IN  \A k \in 1..Len(rt.result.nodes) :
                    rt.result.nodes[k].headerLevel >= 1 =>
                        \E i \in 1..Len(lines) :
                            /\ isHeader(i)
                            /\ hashRun(lines[i]) = rt.result.nodes[k].headerLevel
                            /\ rt.result.nodes[k].content = trim(span(i, last(i)))

\* C29: with maxHeaderLevel = m, the result of splitMarkdown has no node of a
\* header level above m, has for every header line of a level from 1 to m a
\* node of that level and header text whose content starts with that line, and
\* has every header line of a level above m as a line of the content of some
\* node.
C29_MaxHeaderLevelRespected ==
    rt.returned =>
        \A lines \in { linesFrom(rt.text, 1) } :
            LET nodes == rt.result.nodes
                m == rt.config.maxHeaderLevel
                holdsLine(k, line) ==
                    \E c \in 1..Len(linesFrom(nodes[k].content, 1)) :
                        linesFrom(nodes[k].content, 1)[c] = line
            IN  /\ \A k \in 1..Len(nodes) : nodes[k].headerLevel <= m
                /\ \A i \in 1..Len(lines) :
                       headerMatch(lines[i]) /\ hashRun(lines[i]) <= m =>
                           \E k \in 1..Len(nodes) :
                               /\ nodes[k].headerLevel = hashRun(lines[i])
                               /\ nodes[k].headerText = headerTextOf(lines[i])
                               /\ linesFrom(nodes[k].content, 1)[1] = lines[i]
                /\ \A i \in 1..Len(lines) :
                       headerMatch(lines[i]) /\ hashRun(lines[i]) > m =>
                           \E k \in 1..Len(nodes) : holdsLine(k, lines[i])

\* C30: when the first line of the text is a header of level 1 and every
\* other header line of the text is of a deeper level, the result of
\* splitMarkdown has exactly one root: rootNodes has one entry and exactly one
\* node has no parentId, whatever chunkSize and chunkOverlap are.
C30_SingleLevelOneHeaderGivesOneRoot ==
    rt.returned =>
        \A lines \in { linesFrom(rt.text, 1) } :
            ( /\ headerMatch(lines[1]) /\ hashRun(lines[1]) = 1
              /\ \A i \in 2..Len(lines) :
                     headerMatch(lines[i]) => hashRun(lines[i]) > 1 )
            => /\ Len(rt.result.rootNodes) = 1
               /\ Cardinality({ k \in 1..Len(rt.result.nodes) :
                                  rt.result.nodes[k].parentId = <<>> }) = 1

\* ---------------------------------------------------- claims C31 to C40

\* C31: toCanvasNodes emits every node of the result exactly once, in the
\* depth-first pre-order of the roots taken in document order; the k-th node
\* emitted (counting from 0) is at y = 180 * k and at x = 300 * its depth in the
\* tree (a root has depth 0), so that no two nodes have the same y.
C31_CanvasPositionsFollowPreOrder ==
    rt.converted =>
        \A nodes \in { rt.result.nodes }, canvasNodes \in { rt.canvasNodes } :
            LET at(id) == CHOOSE k \in 1..Len(nodes) : nodes[k].id = id
                RECURSIVE depth(_)
                depth(k) == IF nodes[k].parentId = <<>> THEN 0
                            ELSE 1 + depth(at(nodes[k].parentId[1]))
                RECURSIVE preOrderOf(_)
                RECURSIVE preOrder(_, _)
                preOrderOf(k) == <<nodes[k].id>> \o preOrder(nodes[k].children, 1)
                preOrder(ids, i) == IF i > Len(ids) THEN <<>>
                                    ELSE preOrderOf(at(ids[i])) \o preOrder(ids, i + 1)
                roots == SelectSeq(nodes, LAMBDA node : node.parentId = <<>>)
            IN  /\ [k \in 1..Len(canvasNodes) |-> canvasNodes[k].id]
                       = preOrder([r \in 1..Len(roots) |-> roots[r].id], 1)
                /\ \A k \in 1..Len(nodes) :
                       Cardinality({ c \in 1..Len(canvasNodes) :
                                       canvasNodes[c].id = nodes[k].id }) = 1
                /\ \A c \in 1..Len(canvasNodes) :
                       /\ canvasNodes[c].position.y = 180 * (c - 1)
                       /\ canvasNodes[c].position.x = 300 * depth(at(canvasNodes[c].id))
                /\ \A c, d \in 1..Len(canvasNodes) :
                       c # d => canvasNodes[c].position.y # canvasNodes[d].position.y

\* A result with two roots and a node of depth 2 has been converted.
C31_Witness ==
    /\ rt.converted
    /\ Len(rt.result.rootNodes) >= 2
    /\ \E c \in 1..Len(rt.canvasNodes) : rt.canvasNodes[c].position.x = 600

\* ------------------------------------------------ Chunk-Splitting Handler
\* The StreamingHandler that cuts the stream into chunks by size and break
\* points (enableStreamingSplit), and the callbacks callAIStreaming drives.

\* Tokens fed to one handler.
MaxChunkTokens == 6

\* The handler after its constructor: the canvas holds the placeholder note
\* that generateNote created, which is the current node.
newChunkHandler(chunkSettings) ==
    [settings |-> chunkSettings,
     currentText |-> <<>>,
     currentNode |-> 1,
     chunks |-> <<>>,
     createdNodes |-> <<1>>,
     isCompleted |-> FALSE,
     pendingUpdate |-> FALSE,
     summaryNode |-> <<>>,
     canvas |-> << [text |-> <<"Calling AI">>, removed |-> FALSE] >>]

\* getCurrentChunkText
getCurrentChunkText(h) ==
    LET RECURSIVE reduce(_)
        reduce(k) == IF k = 0 THEN 0 ELSE reduce(k - 1) + Len(h.chunks[k])
    IN  slice(h.currentText, reduce(Len(h.chunks)), Len(h.currentText))

\* shouldCreateNewChunk
shouldCreateNewChunk(h) ==
    LET currentChunkText == getCurrentChunkText(h)
        recentText == IF Len(h.currentText) > 100
                      THEN slice(h.currentText, Len(h.currentText) - 100, Len(h.currentText))
                      ELSE h.currentText
        has(word) == \E i \in 1..(Len(recentText) - Len(word) + 1) :
                         SubSeq(recentText, i, i + Len(word) - 1) = word
        digits == {"0", "1", "2", "3", "4", "5", "6", "7", "8", "9"}
        capitals == {"A", "B", "C", "D", "E", "F", "G", "H", "I", "J", "K", "L", "M",
                     "N", "O", "P", "Q", "R", "S", "T", "U", "V", "W", "X", "Y", "Z"}
        \* "backquote" stands for the character of a code fence
        hasStructuralBreak ==
            \/ has(<<NL, NL>>)
            \/ has(<<HASH, HASH>>)
            \/ \E i \in 1..(Len(recentText) - 2) :
                   /\ recentText[i] \in digits
                   /\ recentText[i + 1] = "."
                   /\ isSpace(recentText[i + 2])
            \/ has(<<"backquote", "backquote", "backquote">>)
        hasSentenceBreak ==
            \E i \in 1..Len(recentText) : \E j \in (i + 2)..Len(recentText) :
                /\ recentText[i] \in {".", "!", "?"}
                /\ \A k \in (i + 1)..(j - 1) : isSpace(recentText[k])
                /\ recentText[j] \in capitals
    IN  IF ~h.settings.enableStreamingSplit THEN FALSE
        ELSE IF Len(h.chunks) >= (IF h.settings.maxSplitNotes = 0 THEN 6
                                  ELSE h.settings.maxSplitNotes) THEN FALSE
        ELSE IF Len(currentChunkText) < h.settings.streamingChunkSize THEN FALSE
        ELSE \/ hasStructuralBreak
             \/ /\ hasSentenceBreak
                /\ 2 * Len(currentChunkText) > 3 * h.settings.streamingChunkSize

\* createNewChunk
createNewChunk(h) ==
    LET currentChunkText == trim(getCurrentChunkText(h))
    IN  IF Len(currentChunkText) < 50 THEN h
        ELSE [h EXCEPT
                 !.chunks = Append(@, currentChunkText),
                 !.canvas = Append([@ EXCEPT ![h.currentNode].text = currentChunkText],
                                   [text |-> <<"indicator">>, removed |-> FALSE]),
                 !.currentNode = Len(h.canvas) + 1,
                 !.createdNodes = Append(@, Len(h.canvas) + 1)]

\* updateCurrentNode; "indicator" is the streaming indicator appended to the text.
updateCurrentNode(h) ==
    IF h.isCompleted THEN h
    ELSE [h EXCEPT !.canvas[h.currentNode].text = h.currentText \o <<"indicator">>]

\* finalizeMindmap up to its await of createMindmapNodes.
finalizeMindmap(h) ==
    LET finalChunkText == trim(getCurrentChunkText(h))
        chunks == IF finalChunkText # <<>> THEN Append(h.chunks, finalChunkText)
                  ELSE h.chunks
        summaryText == <<"AI Response (", ToString(Len(chunks)), " parts)", NL, NL>>
                           \o slice(chunks[1], 0, 150) \o <<"...">>
    IN  [h EXCEPT
            !.chunks = chunks,
            !.canvas = Append([k \in 1..Len(h.canvas) |->
                                  IF \E c \in 1..Len(h.createdNodes) : h.createdNodes[c] = k
                                  THEN [h.canvas[k] EXCEPT !.removed = TRUE]
                                  ELSE h.canvas[k]],
                              [text |-> summaryText, removed |-> FALSE]),
            !.summaryNode = <<Len(h.canvas) + 1>>]

\* onToken of the chunk-splitting handler; due says that streamingUpdateInterval
\* has passed since lastUpdateTime.
chunkOnToken(h, token, due) ==
    IF h.isCompleted THEN h
    ELSE the({ IF fed.settings.enableStreamingSplit /\ shouldCreateNewChunk(fed)
               THEN createNewChunk(fed) ELSE fed :
               fed \in { [h EXCEPT !.currentText = @ \o token,
                                   !.pendingUpdate = @ \/ due] } })

\* onComplete of the chunk-splitting handler, to the point where
\* finalizeMindmap awaits.
chunkOnComplete(h, fullText) ==
    the({ IF Len(done.chunks) > 1 /\ done.settings.enableStreamingSplit
          THEN finalizeMindmap(done) ELSE done :
          done \in { updateCurrentNode([h EXCEPT !.isCompleted = TRUE,
                                                 !.currentText = fullText]) } })

InitChunks ==
    /\ settings = TreeSettings
    /\ handler = newStreamingHandler(settings)
    /\ isStreamingCompleted = FALSE
    /\ timeoutId = TRUE
    /\ transport = NewTransport
    /\ canvasFaults = 0
    /\ configured = settings
    /\ commands = <<>>
    /\ \E chunkSettings \in [enableStreamingSplit : BOOLEAN, maxSplitNotes : {0, 1, 2},
                               streamingChunkSize : {50, 100}] :
           rt = [handler |-> newChunkHandler(chunkSettings), tokens |-> 0,
                 returned |-> FALSE, awaiting |-> FALSE]

\* callAIStreaming hands a token to onToken: a sentence of 25 characters, a
\* paragraph break, or the start of a new sentence.
ChunkToken ==
    /\ ~rt.returned
    /\ rt.tokens < MaxChunkTokens
    /\ \E token \in { [i \in 1..25 |-> IF i = 25 THEN "." ELSE "a"], <<NL, NL>>, <<SP, "B">> },
          due \in BOOLEAN :
           rt' = [rt EXCEPT !.handler = chunkOnToken(@, token, due), !.tokens = @ + 1]
    /\ RTUnchanged

\* callAIStreaming ends the stream: onComplete with the accumulated text.
ChunkComplete ==
    /\ ~rt.returned
    /\ rt' = [rt EXCEPT !.handler = chunkOnComplete(@, @.currentText),
                        !.returned = TRUE,
                        !.awaiting = Len(chunkOnComplete(rt.handler, rt.handler.currentText).chunks) > 1
                                       /\ rt.handler.settings.enableStreamingSplit]
    /\ RTUnchanged

\* The timer of scheduleUpdate fires.
ChunkUpdateTimer ==
    /\ rt.handler.pendingUpdate
    /\ rt' = [rt EXCEPT !.handler = [updateCurrentNode(@) EXCEPT !.pendingUpdate = FALSE]]
    /\ RTUnchanged

\* finalizeMindmap resumes: createMindmapNodes makes one note per chunk.
CreateMindmapNodes ==
    /\ rt.awaiting
    /\ rt' = [rt EXCEPT !.awaiting = FALSE,
                        !.handler.canvas = @ \o [i \in 1..Len(rt.handler.chunks) |->
                                                    [text |-> rt.handler.chunks[i],
                                                     removed |-> FALSE]]]
    /\ RTUnchanged

NextChunks ==
    \/ ChunkToken
    \/ ChunkComplete
    \/ ChunkUpdateTimer
    \/ CreateMindmapNodes

SpecChunks == InitChunks /\ [][NextChunks]_vars

\* C32: with streaming auto-split enabled, the note nodes on the canvas that
\* were created for the response never number more than maxSplitNotes (6 when
\* the setting is unset), while the response streams and once the mindmap is
\* built.
C32_NotesNeverExceedMaxSplitNotes ==
    rt.handler.settings.enableStreamingSplit =>
        Cardinality({ k \in 1..Len(rt.handler.canvas) : ~rt.handler.canvas[k].removed })
            <= (IF rt.handler.settings.maxSplitNotes = 0 THEN 6
                ELSE rt.handler.settings.maxSplitNotes)

\* C36: in single-note mode, once onComplete(fullText) has been handled the
\* response note shows exactly fullText, whatever refresh timers were pending or
\* have fired.
C36_SingleNoteShowsFullText ==
    (rt.returned /\ ~rt.handler.settings.enableStreamingSplit) =>
        rt.handler.canvas[rt.handler.currentNode].text = rt.handler.currentText

\* C38: the finalized chunks are consecutive pieces of the streamed text that
\* do not overlap: the offset from which the text after the k-th chunk is read
\* (the sum of the lengths of the first k chunks) is the position of the buffer
\* at which the k-th chunk ended.
C38_ChunksAreConsecutivePieces ==
    \A text \in { rt.handler.currentText }, chunks \in { rt.handler.chunks } :
        LET RECURSIVE offset(_)
            offset(k) == IF k = 0 THEN 0 ELSE offset(k - 1) + Len(chunks[k])
            \* where the k-th chunk, cut from offset(k - 1) on and trimmed, begins
            startOf(k) == offset(k - 1)
                            + (Len(slice(text, offset(k - 1), Len(text)))
                                 - Len(trimStart(slice(text, offset(k - 1), Len(text)))))
            endOf(k) == startOf(k) + Len(chunks[k])
        IN  \A k \in 1..Len(chunks) :
                /\ slice(text, startOf(k), endOf(k)) = chunks[k]
                /\ offset(k) = endOf(k)

\* ------------------------------------------------------ Overlapping onToken
\* getChatGPTStreamingCompletion calls onToken for every data line of a chunk
\* it has read without awaiting the promise onToken returns.  An onToken call
\* runs to its first suspension: the await of createCanvasNodeForTreeNode in
\* processNewHeader, or the await of tryHeaderBasedSplit when no header is
\* processed.  The suspended calls resume in the order they were suspended,
\* before the next chunk is read.

\* Chunks read in one session, and the most data lines with content in a chunk.
MaxReads == 2
MaxLinesPerRead == 2

\* processNewHeader up to its await: the pair <<handler, newTreeNode>>; the
\* node is not in nodeMap yet.
processNewHeaderToAwait(h, header) ==
    the({ <<[p EXCEPT !.nodeMap = SubSeq(@, 1, Len(@) - 1)], p.nodeMap[Len(p.nodeMap)]>> :
          p \in { processNewHeader(h, header, "none") } })

\* onToken up to its first suspension: the pair <<handler, suspended call>>,
\* <<handler>> when the call returns at once.
onTokenToAwait(h, token) ==
    IF h.isCompleted \/ h.isPaused THEN <<h>>
    ELSE the({ IF ~fed.enableLiveSplitting \/ Len(fed.currentText) <= fed.lastProcessedLength
               THEN <<fed, [newTreeNode |-> <<>>, newHeaders |-> <<>>]>>
               ELSE the({ IF Len(newHeaders) = 0
                          THEN <<updateCurrentActiveNode(fed),
                                 [newTreeNode |-> <<>>, newHeaders |-> <<>>]>>
                          ELSE the({ <<begun[1], [newTreeNode |-> <<begun[2]>>,
                                                  newHeaders |-> Tail(newHeaders)]>> :
                                     begun \in { processNewHeaderToAwait(fed, Head(newHeaders)) } }) :
                          newHeaders \in { headersFrom(parseHeaders(fed.currentText),
                                                       fed.lastProcessedLength) } }) :
               fed \in { [h EXCEPT !.currentText = @ \o token] } })

\* A suspended onToken call resumes: processNewHeader stores its node in
\* nodeMap; the loop of tryHeaderBasedSplit goes on to the await of the next
\* header, or ends, moves lastProcessedLength and lets onToken schedule the
\* throttled refresh.  The pair <<handler, suspended call>>, <<handler>> when
\* the call has returned.
onTokenResumed(h, call) ==
    the({ IF call.newHeaders # <<>>
          THEN the({ <<begun[1], [newTreeNode |-> <<begun[2]>>,
                                  newHeaders |-> Tail(call.newHeaders)]>> :
                     begun \in { processNewHeaderToAwait(stored, Head(call.newHeaders)) } })
          ELSE the({ << IF split.intervalElapsed /\ ~split.pendingUpdate
                        THEN [split EXCEPT !.pendingUpdate = TRUE, !.updateTimers = @ + 1]
                        ELSE split >> :
                     split \in { IF call.newTreeNode = <<>> THEN stored
                                 ELSE [stored EXCEPT !.lastProcessedLength =
                                                          Len(stored.currentText)] } }) :
          stored \in { IF call.newTreeNode = <<>> THEN h
                       ELSE [h EXCEPT !.nodeMap = Append(@, call.newTreeNode[1])] } })

InitReentrant ==
    /\ settings = TreeSettings
    /\ handler = newStreamingHandler(settings)
    /\ isStreamingCompleted = FALSE
    /\ timeoutId = TRUE
    /\ transport = NewTransport
    /\ canvasFaults = 0
    /\ configured = settings
    /\ commands = <<>>
    /\ rt = [handler |-> newStreamingHandler(settings), suspended |-> <<>>, reads |-> 0]

\* reader.read() resolves with a chunk; every suspended call has resumed by
\* then.  forLines is the loop over the data lines of the chunk.
ReadChunk ==
    LET RECURSIVE forLines(_, _, _)
        forLines(h, suspended, tokens) ==
            IF tokens = <<>> THEN <<h, suspended>>
            ELSE the({ forLines(called[1],
                                IF Len(called) = 2 THEN Append(suspended, called[2])
                                ELSE suspended,
                                Tail(tokens)) :
                       called \in { onTokenToAwait(h, Head(tokens)) } })
    IN  /\ rt.suspended = <<>>
        /\ rt.reads < MaxReads
        /\ \E n \in 1..MaxLinesPerRead : \E tokens \in [1..n -> Pieces] :
               \E looped \in { forLines(rt.handler, <<>>, tokens) } :
                   rt' = [handler |-> looped[1], suspended |-> looped[2],
                          reads |-> rt.reads + 1]
        /\ RTUnchanged

\* The earliest suspended onToken call resumes.
ResumeOnToken ==
    /\ rt.suspended # <<>>
    /\ \E resumed \in { onTokenResumed(rt.handler, Head(rt.suspended)) } :
           rt' = [rt EXCEPT !.handler = resumed[1],
                            !.suspended = IF Len(resumed) = 2
                                          THEN Append(Tail(@), resumed[2]) ELSE Tail(@)]
    /\ RTUnchanged

\* The timer of scheduleUpdate fires between two chunks.
ReentrantUpdateTimer ==
    /\ rt.suspended = <<>>
    /\ rt.handler.updateTimers > 0
    /\ rt' = [rt EXCEPT !.handler = scheduleUpdate(@)]
    /\ RTUnchanged

NextReentrant ==
    \/ ReadChunk
    \/ ResumeOnToken
    \/ ReentrantUpdateTimer

SpecReentrant == InitReentrant /\ [][NextReentrant]_vars

\* C33: when a later onToken call starts while an earlier one is suspended in
\* header processing, every header line is still materialized once: no two
\* Section Nodes stand for the header at the same offset, and the canvas holds
\* no more notes than the response note and one note per header of the buffer.
C33_OverlappingOnTokenMaterializesOnce ==
    /\ \A i, j \in 2..Len(rt.handler.nodeMap) :
           i # j => rt.handler.nodeMap[i].startIndex # rt.handler.nodeMap[j].startIndex
    /\ Len(rt.handler.canvas) - 1 <= Len(parseHeaders(rt.handler.currentText))

\* C34: however the document is cut into tokens (all at once, or character by
\* character, each onToken handled before the next), the headers that have a
\* Section Node at completion are exactly the headers the scanner reports on the
\* final buffer, each with its level and its full header text.
C34_SectionNodesAreScannedHeaders ==
    \A h \in { rt.oneShot, rt.charByChar } :
        h.isCompleted =>
            { [startIndex |-> h.nodeMap[i].startIndex,
               level      |-> h.nodeMap[i].headerLevel,
               text       |-> h.nodeMap[i].headerText] : i \in 2..Len(h.nodeMap) }
          = { [startIndex |-> header.startIndex, level |-> header.level,
               text       |-> header.text] :
              header \in { parseHeaders(h.currentText)[k] :
                             k \in 1..Len(parseHeaders(h.currentText)) } }


\* C35: a call of the streaming transport function invokes one terminal
\* callback, once: never onComplete and onError both, never one of them twice,
\* and one of them by the time the function returns, also when the chunk-read
\* timeout has fired.
C35_ExactlyOneTerminalCallback ==
    /\ transport.terminalCalls <= 1
    /\ transport.pc = "returned" => transport.terminalCalls = 1

\* C37: when generateHierarchicalMindmap or generateSingleAIResponse finishes
\* (after its AI call has returned, by its early return, or through its catch
\* block), enableMarkdownSplitting has the value the command saved when it
\* started, and enableStreaming has the configured value, which no command
\* changes while it runs.
C37_CommandRestoresSettings ==
    [][ \A c \in {"generateHierarchicalMindmap", "generateSingleAIResponse"} :
          (commands[c].pc \in {"streaming", "calling"}
              /\ commands'[c].pc \in {"done", "returned"})
            => /\ settings'.enableMarkdownSplitting = commands[c].originalSplittingEnabled
               /\ settings'.enableStreaming = configured.enableStreaming ]_vars


\* ------------------------------------------------- simpleSplitText, stepwise
\* One call of simpleSplitText, a loop iteration at a time.  The configuration is
\* what the caller passed to the constructor, which does not check it; the
\* overlaps go up to chunkSize (with a larger overlap start falls below 0 and
\* keeps falling).  Of the chunks pushed only the first MaxWindows are kept.

\* Characters of the text to split.
MaxSplitText == 6
\* Chunks of one call that are recorded.
MaxWindows == 8

InitChunker ==
    /\ settings = TreeSettings
    /\ handler = newStreamingHandler(settings)
    /\ isStreamingCompleted = FALSE
    /\ timeoutId = TRUE
    /\ transport = NewTransport
    /\ canvasFaults = 0
    /\ configured = settings
    /\ commands = <<>>
    /\ \E n \in 0..MaxSplitText, chunkSize \in 1..3 : \E chunkOverlap \in 0..chunkSize :
           rt = [text |-> [i \in 1..n |-> "a"],
                 config |-> [chunkSize |-> chunkSize, chunkOverlap |-> chunkOverlap],
                 pc |-> "called", start |-> 0, chunks |-> <<>>]

\* A step of simpleSplitText: from its call to the loop or the short-circuit
\* return, the test of the while loop, or the body of one iteration.
SimpleSplitTextStep ==
    /\ rt.pc # "returned"
    /\ rt' = IF rt.pc = "called"
             THEN IF Len(rt.text) <= rt.config.chunkSize
                  THEN [rt EXCEPT !.pc = "returned", !.chunks = <<rt.text>>]
                  ELSE [rt EXCEPT !.pc = "while"]
             ELSE IF rt.pc = "while"
             THEN [rt EXCEPT !.pc = IF rt.start < Len(rt.text) THEN "window" ELSE "returned"]
             ELSE the({ [rt EXCEPT
                            !.chunks = IF Len(@) < MaxWindows
                                       THEN Append(@, slice(rt.text, rt.start, end)) ELSE @,
                            !.pc = IF end >= Len(rt.text) THEN "returned" ELSE "while",
                            !.start = IF end >= Len(rt.text) THEN @
                                      ELSE end - rt.config.chunkOverlap] :
                        end \in { IF Len(rt.text) < rt.start + rt.config.chunkSize
                                  THEN Len(rt.text) ELSE rt.start + rt.config.chunkSize } })
    /\ RTUnchanged

\* The call runs on: a loop that can iterate does.
SpecChunker == InitChunker /\ [][SimpleSplitTextStep]_vars /\ WF_vars(SimpleSplitTextStep)

\* C39: simpleSplitText terminates for every text and every configuration of
\* chunkSize and chunkOverlap: the call returns its list of chunks.
C39_SimpleSplitTextTerminates == <>(rt.pc = "returned")

\* --------------------------------------------------- Selection and Tooltip
\* CanvasSelectionManager polls the selection of the canvas on every animation
\* frame and drives one CanvasTooltip through timers: showTooltipForNode shows
\* after 50 ms, the hide timeout runs after 0 ms, and CanvasTooltip.hide takes
\* the tooltip off the display after 200 ms.  Time is counted in steps of 50 ms.
\* A timer runs once its delay has passed and no timer with an earlier deadline
\* is waiting; the hide timeout is due at once.  A frame is polled between a
\* selection change and the next step of time.  rt holds
\*   selection                               the selected canvas nodes;
\*   lastSelectionSize, lastSelectedNodeId   the locals of monitorSelectionChanges;
\*   hideTooltipTimeout                      the hide timeout is set;
\*   showTimers                              the pending timers of showTooltipForNode;
\*   displayTimers                           the pending timers of CanvasTooltip.hide;
\*   display, opacity                        the style of the tooltip element;
\*   now, polled, changes                    the time, whether a frame saw the
\*                                           selection, the changes made so far.

\* Selection changes in one run, and the steps of time.
MaxSelectionChanges == 4
MaxTime == 6

InitSelection ==
    /\ settings = TreeSettings
    /\ handler = newStreamingHandler(settings)
    /\ isStreamingCompleted = FALSE
    /\ timeoutId = TRUE
    /\ transport = NewTransport
    /\ canvasFaults = 0
    /\ configured = settings
    /\ commands = <<>>
    /\ rt = [selection |-> {}, lastSelectionSize |-> 0, lastSelectedNodeId |-> <<>>,
             hideTooltipTimeout |-> FALSE, showTimers |-> <<>>, displayTimers |-> <<>>,
             display |-> "none", opacity |-> 0, now |-> 0, polled |-> TRUE, changes |-> 0]

\* The user (or a command) changes the selection of the canvas.
SelectionChanges ==
    /\ rt.changes < MaxSelectionChanges
    /\ \E selection \in SUBSET {"A", "B"} :
           /\ selection # rt.selection
           /\ rt' = [rt EXCEPT !.selection = selection, !.polled = FALSE,
                               !.changes = @ + 1]
    /\ RTUnchanged

\* checkSelection, the animation frame callback of monitorSelectionChanges.
CheckSelection ==
    /\ ~rt.polled
    /\ \E currentSize \in { Cardinality(rt.selection) } :
       \E selectedNode \in { IF currentSize = 1 THEN <<the(rt.selection)>> ELSE <<>> } :
           rt' = IF currentSize # rt.lastSelectionSize
                    \/ (currentSize = 1 /\ selectedNode # rt.lastSelectedNodeId)
                 THEN IF currentSize = 1
                      THEN [rt EXCEPT !.polled = TRUE,
                                      !.hideTooltipTimeout = FALSE,
                                      !.showTimers = Append(@, [node |-> selectedNode[1],
                                                                due |-> rt.now + 1]),
                                      !.lastSelectedNodeId = selectedNode,
                                      !.lastSelectionSize = currentSize]
                      ELSE [rt EXCEPT !.polled = TRUE,
                                      !.hideTooltipTimeout = TRUE,
                                      !.lastSelectionSize = currentSize]
                 ELSE [rt EXCEPT !.polled = TRUE]
    /\ RTUnchanged

\* The callback of the hide timeout: hideTooltip() unless one node is selected.
HideTimeoutFires ==
    /\ rt.hideTooltipTimeout
    /\ rt' = IF Cardinality(rt.selection) # 1
             THEN [rt EXCEPT !.hideTooltipTimeout = FALSE,
                             !.lastSelectedNodeId = <<>>,
                             !.opacity = 0,
                             !.displayTimers = Append(@, rt.now + 4)]
             ELSE [rt EXCEPT !.hideTooltipTimeout = FALSE]
    /\ RTUnchanged

\* The timer of showTooltipForNode: tooltip.show(node), with the animation frame
\* that fades the tooltip in.
ShowTimerFires ==
    /\ ~rt.hideTooltipTimeout
    /\ rt.showTimers # <<>>
    /\ Head(rt.showTimers).due <= rt.now
    /\ \A k \in 1..Len(rt.displayTimers) : rt.displayTimers[k] >= Head(rt.showTimers).due
    /\ rt' = [rt EXCEPT !.showTimers = Tail(@), !.display = "flex", !.opacity = 1]
    /\ RTUnchanged

\* The timer of CanvasTooltip.hide: display = 'none'.
DisplayTimerFires ==
    /\ ~rt.hideTooltipTimeout
    /\ rt.displayTimers # <<>>
    /\ Head(rt.displayTimers) <= rt.now
    /\ \A k \in 1..Len(rt.showTimers) : rt.showTimers[k].due >= Head(rt.displayTimers)
    /\ rt' = [rt EXCEPT !.displayTimers = Tail(@), !.display = "none"]
    /\ RTUnchanged

\* 50 ms pass: no timer is due, and a frame has polled the selection.
TimePasses ==
    /\ rt.now < MaxTime
    /\ rt.polled
    /\ ~rt.hideTooltipTimeout
    /\ \A k \in 1..Len(rt.showTimers) : rt.showTimers[k].due > rt.now
    /\ \A k \in 1..Len(rt.displayTimers) : rt.displayTimers[k] > rt.now
    /\ rt' = [rt EXCEPT !.now = @ + 1]
    /\ RTUnchanged

NextSelection ==
    \/ SelectionChanges
    \/ CheckSelection
    \/ HideTimeoutFires
    \/ ShowTimerFires
    \/ DisplayTimerFires
    \/ TimePasses

SpecSelection == InitSelection /\ [][NextSelection]_vars

\* C40: once every pending timer of the selection manager and of its tooltip
\* has run and a frame has polled the selection, the tooltip is visible only if
\* exactly one canvas node is selected.
C40_TooltipVisibleOnlyForOneSelectedNode ==
    (/\ rt.polled
     /\ ~rt.hideTooltipTimeout
     /\ rt.showTimers = <<>>
     /\ rt.displayTimers = <<>>)
        => ((rt.display = "flex" /\ rt.opacity = 1) => Cardinality(rt.selection) = 1)
====
